---------------------------- MODULE Spec2Model ----------------------------
(***************************************************************************)
(* Model of the ELLIO Traefik middleware plugin:                           *)
(*   - pkg/iptrie      binary trie over IPv4/IPv6 prefixes                 *)
(*   - pkg/ipmatcher   atomic {trie, count} bundle with lock-free reads    *)
(*   - pkg/singleton   manager, token manager, EDL updater, supervisor     *)
(*   - the request dispatcher (ServeHTTP)                                  *)
(*   - pkg/logs        log shipper, ring buffer and token bucket           *)
(* The specifications share the module's variables: SpecTrie (the trie     *)
(* and its serialized form), SpecMatcher (interleaved Update / Contains /  *)
(* Count), SpecOnce (concurrent Initialize calls), Spec (the manager life  *)
(* cycle with requests), SpecUpdater (updateNow attempt by attempt),       *)
(* SpecExtract (client IP extraction), SpecShipper (the log shipper),      *)
(* SpecRefresh (the token refresh timer), SpecServe (ServeHTTP against its *)
(* response writer), SpecLoop (the update loop and Reconfigure),           *)
(* SpecCheck (one CheckConfigUpdates call on a manager), SpecRing (the     *)
(* ring buffer's head, tail and size under Add, Drain and DrainAll) and    *)
(* SpecSwitch (config re-checks against the updates in flight).            *)
(***************************************************************************)
EXTENDS Integers, Sequences, FiniteSets, TLC

VARIABLES
    \* ---- pkg/iptrie driven directly (SpecTrie)
    trie,          \* the *Trie under test
    inserted,      \* the prefixes handed to Insert so far
    answers,       \* the addresses Contains reported, once asked for all
    loaded,        \* result of loading the serialized form of trie, if loaded
    \* ---- pkg/ipmatcher under interleaving (SpecMatcher)
    heap,          \* allocated *trieData objects: id -> [trie, count]
    mdata,         \* Matcher.data: id of the published object
    writer,        \* the goroutine inside Matcher.Update
    readers,       \* goroutines inside Contains / ContainsAddr / Count
    \* ---- pkg/singleton and the dispatcher (Spec)
    init,          \* once, initErr, instance and the position of the once body
    callers,       \* the goroutines calling Initialize
    m,             \* Manager fields
    tm,            \* TokenManager fields
    u,             \* EDLUpdater fields
    matcher,       \* Manager.matcher: the published {trie, count}
    rt,            \* background goroutines
    seen,          \* history: what the control plane has been asked / answered
    lastReq,       \* the request ServeHTTP served in the last step, if any
    \* ---- the EDL updater step by step (SpecUpdater; it publishes to matcher)
    ed,            \* EDLUpdater fields and the clock
    calls,         \* the goroutines inside updateNow
    \* ---- client IP extraction (SpecExtract)
    dx,            \* a middleware instance's config, a request, the extracted IP
    \* ---- pkg/logs LogShipper (SpecShipper)
    sh,            \* LogShipper fields: channel, ring buffer, bucket, counters
    wk,            \* the processEvents goroutine and the caller of Stop
    obs,           \* history: events accepted, events handed to shipBatch
    \* ---- the token refresh timer (SpecRefresh)
    rf,            \* token expiry, refresh timer, the attempt of the last step
    \* ---- ServeHTTP and its response writer (SpecServe)
    rw,            \* position in ServeHTTP, the response written so far
    \* ---- the update loop and Reconfigure (SpecLoop)
    lp,            \* EDLUpdater.updateFrequency, reconfigureCh, the loop's ticker
    \* ---- one CheckConfigUpdates call (SpecCheck)
    cc,            \* the manager before, the answer, the manager after
    \* ---- pkg/logs RingBuffer field by field (SpecRing)
    rb,            \* RingBuffer fields, the last result, what was added
    \* ---- config re-check, Reconfigure and the updates in flight (SpecSwitch)
    sw             \* mode and URLs, fetches in flight, the trie's source

trieVars == <<trie, inserted, answers, loaded>>
matVars  == <<heap, mdata, writer, readers>>
mgrVars  == <<init, callers, m, tm, u, matcher, rt, seen, lastReq>>
updVars  == <<ed, calls>>
shipVars == <<sh, wk, obs>>
auxVars  == <<rw, lp, cc, rb, sw>>
vars     == <<trie, inserted, answers, loaded, heap, mdata, writer, readers,
              init, callers, m, tm, u, matcher, rt, seen, lastReq, ed, calls, dx,
              sh, wk, obs, rf, rw, lp, cc, rb, sw>>

---------------------------------------------------------------------------
(* Bounds.  Address widths are scaled down: an IPv4 address has V4Bits     *)
(* bits (32 in the code), an IPv6 address two halves of V6Half bits (64).  *)

V4Bits == 2

V4Unroll == 1

V6Half == 1

MaxInserts == 2

V6Bits == 2 * V6Half

Pow2(n) == IF n <= 0 THEN 1 ELSE 2 ^ n

---------------------------------------------------------------------------
(* net/netip as the code uses it.  A textual address is a sequence of      *)
(* characters: V4Bits binary digits separated by ".", or V6Bits binary     *)
(* digits separated by ":".  Anything else does not parse.                 *)

Digits == {"0", "1"}

DigitVal(c) == IF c = "1" THEN 1 ELSE 0

RECURSIVE DigitsValue(_, _)
DigitsValue(text, k) ==
    \* value of the digits at positions 1, 3, ..., 2k-1 (MSB first)
    IF k = 0 THEN 0 ELSE 2 * DigitsValue(text, k - 1) + DigitVal(text[2 * k - 1])

WellFormed(text, n, sep) ==
    /\ Len(text) = 2 * n - 1
    /\ \A i \in 1..Len(text) :
          IF i % 2 = 1 THEN text[i] \in Digits ELSE text[i] = sep

ParseAddr(text) ==
    IF WellFormed(text, V4Bits, ".")
    THEN [ok |-> TRUE, is4 |-> TRUE, val |-> DigitsValue(text, V4Bits)]
    ELSE IF WellFormed(text, V6Bits, ":")
    THEN [ok |-> TRUE, is4 |-> FALSE, val |-> DigitsValue(text, V6Bits)]
    ELSE [ok |-> FALSE, is4 |-> FALSE, val |-> 0]

RECURSIVE FormatDigits(_, _, _)
FormatDigits(val, n, sep) ==
    IF n = 1 THEN <<IF val % 2 = 1 THEN "1" ELSE "0">>
    ELSE FormatDigits(val \div 2, n - 1, sep)
            \o <<sep, IF val % 2 = 1 THEN "1" ELSE "0">>

FormatAddr(a) ==
    IF a.is4 THEN FormatDigits(a.val, V4Bits, ".") ELSE FormatDigits(a.val, V6Bits, ":")

Addr4(v) == [is4 |-> TRUE, val |-> v]
Addr6(v) == [is4 |-> FALSE, val |-> v]

Addrs4 == {Addr4(v) : v \in 0..(Pow2(V4Bits) - 1)}
Addrs6 == {Addr6(v) : v \in 0..(Pow2(V6Bits) - 1)}
Addrs  == Addrs4 \cup Addrs6

Width(is4) == IF is4 THEN V4Bits ELSE V6Bits

\* netip.Prefix: an address and a length; the address may carry host bits.
\* The model draws prefixes whose host bits are all zero or all one.
Prefix(is4, addr, bits) == [is4 |-> is4, addr |-> addr, bits |-> bits]

HostMask(is4, bits) == Pow2(Width(is4) - bits) - 1

Prefixes ==
    {p \in [is4 : BOOLEAN, addr : 0..(Pow2(V4Bits + V6Bits) - 1), bits : 0..(V4Bits + V6Bits)] :
        /\ p.bits <= Width(p.is4)
        /\ p.addr < Pow2(Width(p.is4))
        /\ (p.addr % Pow2(Width(p.is4) - p.bits)) \in {0, HostMask(p.is4, p.bits)}}

---------------------------------------------------------------------------
(* pkg/iptrie.  A root's nodes are a function from the path of a node (the *)
(* bits walked from the root) to its isEnd flag; children[b] of the node   *)
(* at path q is nil iff Append(q, b) is not in the domain.                 *)

EmptyRoot == (<<>> :> FALSE)

NewTrie == [count |-> 0, rootV4 |-> EmptyRoot, rootV6 |-> EmptyRoot]

BitV4_LSB(ip, i) == (ip \div Pow2(i)) % 2

\* (ip >> (31 - i)) & 1
BitV4(ip, i) == (ip \div Pow2(V4Bits - 1 - i)) % 2

\* the two uint64 halves of As16()
High(val) == val \div Pow2(V6Half)
Low(val)  == val % Pow2(V6Half)

BitV6(val, i) ==
    IF i < V6Half
    THEN (High(val) \div Pow2(V6Half - 1 - i)) % 2
    ELSE (Low(val) \div Pow2(V6Bits - 1 - i)) % 2

AddrBit(is4, val, i) == IF is4 THEN BitV4(val, i) ELSE BitV6(val, i)

RECURSIVE InsertWalk(_, _, _, _, _, _)
InsertWalk(nodes, current, is4, ip, i, prefixLen) ==
    IF i >= prefixLen
    THEN [nodes EXCEPT ![current] = TRUE]
    ELSE LET child == Append(current, AddrBit(is4, ip, i))
             made  == IF child \in DOMAIN nodes THEN nodes ELSE nodes @@ (child :> FALSE)
         IN  InsertWalk(made, child, is4, ip, i + 1, prefixLen)

insertV4(root, ip, prefixLen) == InsertWalk(root, <<>>, TRUE, ip, 0, prefixLen)

insertV6(root, ip, prefixLen) == InsertWalk(root, <<>>, FALSE, ip, 0, prefixLen)

Insert(t, prefix) ==
    IF prefix.is4
    THEN [t EXCEPT !.rootV4 = insertV4(t.rootV4, prefix.addr, prefix.bits),
                   !.count = t.count + 1]
    ELSE [t EXCEPT !.rootV6 = insertV6(t.rootV6, prefix.addr, prefix.bits),
                   !.count = t.count + 1]

\* One of the lookup loops: bits i .. hi-1 from node current.
\* Result: "hit", "miss", or the node reached when the loop runs out.
RECURSIVE ContainsLoop(_, _, _, _, _, _)
ContainsLoop(nodes, current, is4, ip, i, hi) ==
    IF i >= hi
    THEN [out |-> "more", node |-> current]
    ELSE LET child == Append(current, AddrBit(is4, ip, i))
         IN  IF child \notin DOMAIN nodes
             THEN [out |-> "miss", node |-> current]
             ELSE IF nodes[child]
             THEN [out |-> "hit", node |-> child]
             ELSE ContainsLoop(nodes, child, is4, ip, i + 1, hi)

TwoLoops(nodes, is4, ip, split, width) ==
    IF nodes[<<>>] THEN TRUE
    ELSE LET first == ContainsLoop(nodes, <<>>, is4, ip, 0, split)
         IN  IF first.out # "more" THEN first.out = "hit"
             ELSE ContainsLoop(nodes, first.node, is4, ip, split, width).out = "hit"

containsV4(root, ip) ==
    TwoLoops(root, TRUE, ip, V4Unroll, V4Bits)

containsV6(root, ip) == TwoLoops(root, FALSE, ip, V6Half, V6Bits)

Contains(t, addr) ==
    IF addr.is4 THEN containsV4(t.rootV4, addr.val) ELSE containsV6(t.rootV6, addr.val)

ContainsUnsafe(t, addr) ==
    IF addr.is4 THEN containsV4(t.rootV4, addr.val) ELSE containsV6(t.rootV6, addr.val)

---------------------------------------------------------------------------
(* The ELLIOTRIE v2 blob and its loader.  The blob is a header and an      *)
(* array of node records holding child indices; the writer is not part of  *)
(* the repository and follows the documented layout.                       *)

\* child and root indices are uint32 in the blob; the model keeps
\* IndexBits of them, and "none" is the all-ones index (0xFFFFFFFF)
IndexBits == 8

NoNode == Pow2(IndexBits) - 1

FormatVersion == 2

MagicHeader == "ELLIOTRIE"

\* the packed flags byte: bit 0 terminal, bits 1..7 depth (uint8)
PackFlags(isEnd, depth) == (2 * depth + (IF isEnd THEN 1 ELSE 0)) % 256

\* number of nodes below and including the node at path q
SubtreeSize(nodes, q) ==
    Cardinality({r \in DOMAIN nodes :
                    Len(r) >= Len(q) /\ SubSeq(r, 1, Len(q)) = q})

\* the records of the subtree at path q, laid out from index base on
\* (node, then its left subtree, then its right subtree)
RECURSIVE SerializeNode(_, _, _)
SerializeNode(nodes, q, base) ==
    LET l     == Append(q, 0)
        r     == Append(q, 1)
        hasL  == l \in DOMAIN nodes
        hasR  == r \in DOMAIN nodes
        lsize == IF hasL THEN SubtreeSize(nodes, l) ELSE 0
    IN  <<[LeftChild  |-> IF hasL THEN base + 1 ELSE NoNode,
           RightChild |-> IF hasR THEN base + 1 + lsize ELSE NoNode,
           Flags      |-> PackFlags(nodes[q], Len(q))]>>
        \o (IF hasL THEN SerializeNode(nodes, l, base + 1) ELSE <<>>)
        \o (IF hasR THEN SerializeNode(nodes, r, base + 1 + lsize) ELSE <<>>)

\* bytes of a TrieHeader: Magic 9, Version 2, Flags 1, three uint32
HeaderSize == 24

\* a family without prefixes may be written as "no root"
IsEmptyRoot(nodes) == DOMAIN nodes = {<<>>} /\ ~nodes[<<>>]

\* the well-formed blob of trie t
Serialize(t, omitEmpty) ==
    LET no4 == omitEmpty /\ IsEmptyRoot(t.rootV4)
        no6 == omitEmpty /\ IsEmptyRoot(t.rootV6)
        n4  == IF no4 THEN 0 ELSE SubtreeSize(t.rootV4, <<>>)
        recs == (IF no4 THEN <<>> ELSE SerializeNode(t.rootV4, <<>>, 0))
                 \o (IF no6 THEN <<>> ELSE SerializeNode(t.rootV6, <<>>, n4))
    IN  [headerLen |-> HeaderSize,
         Magic |-> MagicHeader, Version |-> FormatVersion, Flags |-> 0,
         TotalNodes |-> Len(recs),
         IPv4Root |-> IF no4 THEN NoNode ELSE 0,
         IPv6Root |-> IF no6 THEN NoNode ELSE n4,
         records |-> recs]

\* blobs a fetch may deliver for trie t: the well-formed ones and damaged ones
Damage(blob, how) ==
    CASE how = "magic"   -> [blob EXCEPT !.Magic = "ELLIOEDL1"]
      [] how = "version" -> [blob EXCEPT !.Version = 1]
      [] how = "short"   -> [blob EXCEPT !.TotalNodes = Len(blob.records) + 1]
      [] how = "both"    -> [blob EXCEPT !.Magic = "ELLIOEDL1", !.Version = 1]
      [] how = "magicCut"   -> [blob EXCEPT !.Magic = "ELLIOEDL1", !.headerLen = 9]
      [] how = "versionCut" -> [blob EXCEPT !.Version = 1, !.headerLen = 11]
      [] how = "badRoot" -> [blob EXCEPT !.IPv4Root = blob.TotalNodes]
      [] how = "badChild" /\ blob.records # <<>>
                         -> [blob EXCEPT !.records[1].LeftChild = blob.TotalNodes]
      [] OTHER           -> blob

IsEndOfFlags_Depth(flags) == flags \div 2 # 0

\* node.isEnd = (sNode.Flags & 0x01) != 0
IsEndOfFlags(flags) == flags % 2 = 1

\* the pointer structure under nodes[idx], as the lookups can walk it:
\* path -> isEnd, followed for at most fuel more bits
RECURSIVE Reach(_, _, _, _)
Reach(records, idx, q, fuel) ==
    LET rec == records[idx + 1]
        me  == (q :> IsEndOfFlags(rec.Flags))
    IN  IF fuel = 0 THEN me
        ELSE me
             @@ (IF rec.LeftChild # NoNode
                 THEN Reach(records, rec.LeftChild, Append(q, 0), fuel - 1)
                 ELSE me)
             @@ (IF rec.RightChild # NoNode
                 THEN Reach(records, rec.RightChild, Append(q, 1), fuel - 1)
                 ELSE me)

\* an index into nodes that is neither the "none" value nor below
\* len(nodes): the expression &nodes[index] panics on it
OutOfRange(index, totalNodes) == index # NoNode /\ index >= totalNodes

\* the loop over the records and the two root assignments meet such an index
IndexFault(blob) ==
    \/ \E i \in 1..blob.TotalNodes :
          \/ OutOfRange(blob.records[i].LeftChild, blob.TotalNodes)
          \/ OutOfRange(blob.records[i].RightChild, blob.TotalNodes)
    \/ OutOfRange(blob.IPv4Root, blob.TotalNodes)
    \/ OutOfRange(blob.IPv6Root, blob.TotalNodes)

LoadPrecomputedTrie(blob) ==
    IF blob.headerLen < HeaderSize
    THEN [err |-> "unexpected EOF", trie |-> NewTrie, count |-> 0]
    ELSE IF blob.Magic # MagicHeader
    THEN [err |-> "invalid magic", trie |-> NewTrie, count |-> 0]
    ELSE IF blob.Version # FormatVersion
    THEN [err |-> "unsupported version", trie |-> NewTrie, count |-> 0]
    ELSE IF Len(blob.records) < blob.TotalNodes
    THEN [err |-> "unexpected EOF", trie |-> NewTrie, count |-> 0]
    ELSE IF IndexFault(blob)
    THEN [err |-> "panic", trie |-> NewTrie, count |-> 0]
    ELSE [err |-> "nil",
          trie |-> [count  |-> blob.TotalNodes,
                    rootV4 |-> IF blob.IPv4Root # NoNode
                               THEN Reach(blob.records, blob.IPv4Root, <<>>, V4Bits)
                               ELSE EmptyRoot,
                    rootV6 |-> IF blob.IPv6Root # NoNode
                               THEN Reach(blob.records, blob.IPv6Root, <<>>, V6Bits)
                               ELSE EmptyRoot],
          count |-> blob.TotalNodes \div 7]

---------------------------------------------------------------------------
(* SpecTrie: Insert and Contains driven as the package tests drive them.   *)

NotAsked == [asked |-> FALSE, yes |-> {}]

NotLoaded == [done |-> FALSE, how |-> "none", err |-> "nil", count |-> 0, yes |-> {}]

InitTrieIdle ==
    /\ trie = NewTrie
    /\ inserted = {}
    /\ answers = NotAsked
    /\ loaded = NotLoaded

TrieInsert(p) ==
    /\ trie.count < MaxInserts
    /\ trie' = Insert(trie, p)
    /\ inserted' = inserted \cup {p}
    /\ answers' = NotAsked
    /\ loaded' = NotLoaded
    /\ UNCHANGED <<matVars, mgrVars, updVars, dx, shipVars, rf, auxVars>>

\* Contains asked for every address; yes = the addresses it reported
TrieContainsAll ==
    /\ ~answers.asked
    /\ answers' = [asked |-> TRUE, yes |-> {a \in Addrs : Contains(trie, a)}]
    /\ UNCHANGED <<trie, inserted, loaded>>
    /\ UNCHANGED <<matVars, mgrVars, updVars, dx, shipVars, rf, auxVars>>

\* the blob of the trie is loaded and the loaded trie asked for every
\* address (ContainsUnsafe, as the matcher asks it)
TrieLoad(omitEmpty, how) ==
    /\ ~loaded.done
    /\ LET res == LoadPrecomputedTrie(Damage(Serialize(trie, omitEmpty), how))
       IN  loaded' = [done |-> TRUE, how |-> how, err |-> res.err, count |-> res.count,
                      yes |-> IF res.err = "nil"
                              THEN {a \in Addrs : ContainsUnsafe(res.trie, a)}
                              ELSE {}]
    /\ UNCHANGED <<trie, inserted, answers>>
    /\ UNCHANGED <<matVars, mgrVars, updVars, dx, shipVars, rf, auxVars>>

---------------------------------------------------------------------------
(* pkg/ipmatcher under interleaving.  A *trieData object is allocated      *)
(* zeroed (trie = nil, written <<>>; count = 0), its fields are written,   *)
(* and atomic.Value.Store publishes the pointer.  A reader loads the       *)
(* pointer in one atomic step and then reads a field of that object.       *)

NReaders == 1

MaxUpdates == 2

Readers == 1..NReaders

FirstV4 == Addr4(0)
LastV4  == Addr4(Pow2(V4Bits) - 1)
LastV6  == Addr6(Pow2(V6Bits) - 1)

\* the lists the updater hands to Update in this model
ListOne == [trie |-> Insert(NewTrie, Prefix(TRUE, 0, V4Bits)), count |-> 1]
ListAll == [trie |-> Insert(Insert(NewTrie, Prefix(TRUE, 0, 0)), Prefix(FALSE, 0, 0)),
            count |-> 2]
ListNone == [trie |-> NewTrie, count |-> 0]

UpdateInputs == {ListOne, ListAll}

BadText == <<"n", "o">>

ReadCalls ==
    {[kind |-> "Contains", text |-> t, addr |-> FirstV4] :
            t \in {FormatAddr(FirstV4), FormatAddr(LastV6), BadText}}
    \cup {[kind |-> "ContainsAddr", text |-> <<>>, addr |-> LastV4]}
    \cup {[kind |-> "Count", text |-> <<>>, addr |-> FirstV4]}

\* what a read returned: a bool (Contains, ContainsAddr), a count, or a fault
NoResult == [kind |-> "none", b |-> FALSE, n |-> 0]
BoolResult(b) == [kind |-> "bool", b |-> b, n |-> 0]
CountResult(n) == [kind |-> "count", b |-> FALSE, n |-> n]
Fault == [kind |-> "fault", b |-> FALSE, n |-> 0]

IdleReader ==
    [pc |-> "idle", call |-> [kind |-> "Count", text |-> <<>>, addr |-> FirstV4],
     addr |-> FirstV4, ptr |-> 0, res |-> NoResult, window |-> {}]

IdleWriter == [pc |-> "idle", id |-> 0, arg |-> ListNone, built |-> FALSE, stored |-> FALSE]

\* ipmatcher.New: the matcher starts with an empty trie and count 0
InitMatIdle ==
    /\ heap = <<[trie |-> <<NewTrie>>, count |-> 0]>>
    /\ mdata = 1
    /\ writer = IdleWriter
    /\ readers = [r \in Readers |-> IdleReader]

\* Update, first half of &trieData{...}: a zeroed object
UpdateAlloc(arg) ==
    /\ writer.pc = "idle"
    /\ Len(heap) <= MaxUpdates
    /\ heap' = Append(heap, [trie |-> <<>>, count |-> 0])
    /\ writer' = [pc |-> "running", id |-> Len(heap) + 1, arg |-> arg,
                  built |-> FALSE, stored |-> FALSE]
    /\ UNCHANGED <<mdata, readers>>
    /\ UNCHANGED <<trieVars, mgrVars, updVars, dx, shipVars, rf, auxVars>>

\* Update, second half of &trieData{...}: the fields are written
UpdateBuild ==
    /\ writer.pc = "running"
    /\ ~writer.built
    /\ heap' = [heap EXCEPT ![writer.id] = [trie |-> <<writer.arg.trie>>,
                                            count |-> writer.arg.count]]
    /\ writer' = [writer EXCEPT !.built = TRUE]
    /\ UNCHANGED <<mdata, readers>>
    /\ UNCHANGED <<trieVars, mgrVars, updVars, dx, shipVars, rf, auxVars>>

StoreEarly == writer.pc = "running" /\ ~writer.stored

\* when m.data.Store(ptr) may run: after the object is complete
StoreReady == writer.pc = "running" /\ writer.built /\ ~writer.stored

\* m.data.Store(ptr); every call in progress may observe the new object
UpdateStore ==
    /\ StoreReady
    /\ mdata' = writer.id
    /\ writer' = [writer EXCEPT !.stored = TRUE]
    /\ readers' = [r \in Readers |->
                     IF readers[r].pc \in {"called", "loaded"}
                     THEN [readers[r] EXCEPT !.window = @ \cup {writer.id}]
                     ELSE readers[r]]
    /\ UNCHANGED heap
    /\ UNCHANGED <<trieVars, mgrVars, updVars, dx, shipVars, rf, auxVars>>

UpdateReturn ==
    /\ writer.pc = "running"
    /\ writer.built
    /\ writer.stored
    /\ writer' = IdleWriter
    /\ UNCHANGED <<heap, mdata, readers>>
    /\ UNCHANGED <<trieVars, mgrVars, updVars, dx, shipVars, rf, auxVars>>

\* Contains parses first: netip.ParseAddr fails -> return false, no load
ReadCall(r, call) ==
    /\ readers[r].pc = "idle"
    /\ LET parsed == ParseAddr(call.text)
       IN  readers' = [readers EXCEPT ![r] =
              IF call.kind = "Contains" /\ ~parsed.ok
              THEN [pc |-> "done", call |-> call, addr |-> call.addr, ptr |-> 0,
                    res |-> BoolResult(FALSE), window |-> {mdata}]
              ELSE [pc |-> "called", call |-> call,
                    addr |-> IF call.kind = "Contains"
                             THEN [is4 |-> parsed.is4, val |-> parsed.val]
                             ELSE call.addr,
                    ptr |-> 0, res |-> NoResult, window |-> {mdata}]]
    /\ UNCHANGED <<heap, mdata, writer>>
    /\ UNCHANGED <<trieVars, mgrVars, updVars, dx, shipVars, rf, auxVars>>

\* data := m.data.Load().(*trieData)
ReadLoad(r) ==
    /\ readers[r].pc = "called"
    /\ readers' = [readers EXCEPT ![r].pc = "loaded", ![r].ptr = mdata]
    /\ UNCHANGED <<heap, mdata, writer>>
    /\ UNCHANGED <<trieVars, mgrVars, updVars, dx, shipVars, rf, auxVars>>

\* data.trie.ContainsUnsafe(addr), or data.count; a nil trie faults
ReadField(r) ==
    /\ readers[r].pc = "loaded"
    /\ LET obj == heap[readers[r].ptr]
       IN  readers' = [readers EXCEPT ![r].pc = "done", ![r].res =
              IF readers[r].call.kind = "Count" THEN CountResult(obj.count)
              ELSE IF obj.trie = <<>> THEN Fault
              ELSE BoolResult(ContainsUnsafe(obj.trie[1], readers[r].addr))]
    /\ UNCHANGED <<heap, mdata, writer>>
    /\ UNCHANGED <<trieVars, mgrVars, updVars, dx, shipVars, rf, auxVars>>

ReadReturn(r) ==
    /\ readers[r].pc = "done"
    /\ readers' = [readers EXCEPT ![r] = IdleReader]
    /\ UNCHANGED <<heap, mdata, writer>>
    /\ UNCHANGED <<trieVars, mgrVars, updVars, dx, shipVars, rf, auxVars>>

NextMatcher ==
    \/ \E arg \in UpdateInputs : UpdateAlloc(arg)
    \/ UpdateBuild
    \/ UpdateStore
    \/ UpdateReturn
    \/ \E r \in Readers, call \in ReadCalls : ReadCall(r, call)
    \/ \E r \in Readers : ReadLoad(r)
    \/ \E r \in Readers : ReadField(r)
    \/ \E r \in Readers : ReadReturn(r)

---------------------------------------------------------------------------
(* pkg/singleton: bootstrap token, control plane, manager state.           *)

NCallers == 2

Callers == 1..NCallers

FiveMinutes == 300

RequiredComponentType == "ellio_traefik_middleware_plugin"

\* A bootstrap token is the sequence of its dot-separated segments.  The
\* payload segment either fails base64 decoding, or decodes to something
\* that is not JSON, or to a JSON object with these claims.
Segment(b64, json, ct, iss) ==
    [b64 |-> b64, json |-> json, component_type |-> ct, iss |-> iss]

Opaque == Segment(TRUE, FALSE, "", "")

GoodPayload == Segment(TRUE, TRUE, RequiredComponentType, "https://cp")

ValidToken == <<Opaque, GoodPayload, Opaque>>

Tokens ==
    { <<>>,                                                  \* ""
      <<Opaque>>,                                            \* "invalid-token"
      <<Opaque, GoodPayload>>,                               \* two segments
      <<Opaque, GoodPayload, Opaque, Opaque>>,               \* four segments
      <<Opaque, Segment(FALSE, FALSE, "", ""), Opaque>>,     \* payload not base64url
      <<Opaque, Segment(TRUE, FALSE, "", ""), Opaque>>,      \* payload not JSON
      <<Opaque, Segment(TRUE, TRUE, "other_component", "https://cp"), Opaque>>,
      <<Opaque, Segment(TRUE, TRUE, "", "https://cp"), Opaque>>,
      <<Opaque, Segment(TRUE, TRUE, RequiredComponentType, ""), Opaque>>,
      ValidToken }

ParseBootstrapToken(token) ==
    IF Len(token) # 3
    THEN [err |-> "invalid JWT format", ComponentType |-> "", Issuer |-> ""]
    ELSE IF ~token[2].b64
    THEN [err |-> "failed to decode JWT payload", ComponentType |-> "", Issuer |-> ""]
    ELSE IF ~token[2].json
    THEN [err |-> "failed to parse JWT claims", ComponentType |-> "", Issuer |-> ""]
    ELSE [err |-> "nil", ComponentType |-> token[2].component_type,
          Issuer |-> token[2].iss]

AnyComponentType(claims) == TRUE

ComponentTypeOK(claims) == claims.ComponentType = RequiredComponentType

\* Initialize, lines 47-98: everything before the bootstrap call.
\* "nil" when the token passes.
ValidateBootstrapToken(token) ==
    IF token = <<>> THEN "bootstrap token is required"
    ELSE LET claims == ParseBootstrapToken(token)
         IN  IF claims.err # "nil" THEN claims.err
             ELSE IF ~ComponentTypeOK(claims) THEN "invalid component_type in JWT"
             ELSE IF claims.Issuer = "" THEN "bootstrap token missing issuer"
             ELSE "nil"

\* BootstrapClient.Bootstrap before it sends anything: it parses the token
\* again and needs the issuer to build the URL.
BootstrapLocalError(token) ==
    IF Len(token) # 3 THEN "invalid JWT format"
    ELSE IF ~token[2].b64 THEN "failed to decode JWT payload"
    ELSE IF ~token[2].json THEN "failed to parse JWT claims"
    ELSE IF token[2].iss = "" THEN "bootstrap token missing issuer"
    ELSE "nil"

\* What the control plane may answer to POST /api/v1/edl/bootstrap.
\* "neterr" is a transport error (no response).
BootstrapResponses ==
    {[status |-> "200", access_token |-> "access", config_url |-> "cfg", logs_url |-> l] :
        l \in {"", "logs"}}
    \cup {[status |-> "200", access_token |-> "access2", config_url |-> "cfg2",
           logs_url |-> "logs"]}
    \cup {[status |-> st, access_token |-> "", config_url |-> "", logs_url |-> ""] :
        st \in {"403", "410", "500", "neterr"}}

NoConfig == [purpose |-> "", update_frequency_seconds |-> 0, combined |-> <<>>]

Configs ==
    [purpose : {"allowlist", "blocklist", "others"},
     update_frequency_seconds : {0, 60},
     combined : {<<>>, <<"u1">>, <<"u2", "u1">>}]

\* What the control plane may answer to GET {config_url}.
ConfigResponses ==
    {[status |-> "200", config |-> c] : c \in Configs}
    \cup {[status |-> st, config |-> NoConfig] : st \in {"403", "410", "500", "neterr"}}

\* What fetchWithRetry may end with: a loaded list, or an error.
FetchOutcomes ==
    {[ok |-> TRUE, list |-> l] : l \in {ListNone, ListOne}}
    \cup {[ok |-> FALSE, list |-> ListNone]}

IsPermanentError(err) == err = "410"

IsTemporaryDisabled(err) == err = "403"

\* BootstrapClient.Bootstrap: the error it returns ("nil" on 200)
BootstrapErr(token, resp) ==
    IF BootstrapLocalError(token) # "nil" THEN BootstrapLocalError(token)
    ELSE IF resp.status = "200" THEN "nil" ELSE resp.status

TokenManagerBootstrap_KeepURL(t, token, resp) ==
    IF BootstrapErr(token, resp) = "nil"
    THEN [t EXCEPT !.currentToken = resp.access_token,
                   !.configURL = IF @ = "" THEN resp.config_url ELSE @,
                   !.logsURL = resp.logs_url]
    ELSE IF IsPermanentError(BootstrapErr(token, resp))
    THEN [t EXCEPT !.deploymentDeleted = TRUE]
    ELSE t

\* TokenManager.Initialize and TokenManager.refresh up to the stores
TokenManagerBootstrap(t, token, resp) ==
    LET err == BootstrapErr(token, resp)
    IN  IF err = "nil"
        THEN [t EXCEPT !.currentToken = resp.access_token,
                       !.configURL = resp.config_url,
                       !.logsURL = resp.logs_url]
        ELSE IF IsPermanentError(err)
        THEN [t EXCEPT !.deploymentDeleted = TRUE]
        ELSE t

IsDeploymentActive(t) == ~t.deploymentDeleted

\* Manager.fetchEDLConfig / ConfigClient.GetEDLConfig: a GET of the empty
\* URL never leaves the process (the HTTP client rejects it), so it ends
\* in a transport error whatever the control plane would answer.
ConfigErr(t, resp) ==
    IF t.configURL = "" THEN "neterr"
    ELSE IF resp.status = "200" THEN "nil" ELSE resp.status

ModeOfPurpose(purpose) == IF purpose = "allowlist" THEN "allowlist" ELSE "blocklist"

\* the update frequency of a config as it comes
FreqOfConfig_Raw(c) == c.update_frequency_seconds

FreqOfConfig(c) ==
    IF c.update_frequency_seconds <= 0 THEN FiveMinutes ELSE c.update_frequency_seconds

HasURL(c) == Len(c.combined) > 0

\* Manager.IsDeploymentEnabled on a manager (instance may be nil)
Enabled(inst, mgr) ==
    inst # "nil" /\ mgr.deploymentEnabled /\ ~mgr.temporarilyDisabled

IsDeploymentEnabled == Enabled(init.instance, m)

\* Matcher.Contains / ContainsAddr on the manager's matcher
MatcherContainsAddr(addr) == ContainsUnsafe(matcher.trie, addr)

MatcherContains(text) ==
    LET parsed == ParseAddr(text)
    IN  IF ~parsed.ok THEN FALSE
        ELSE MatcherContainsAddr([is4 |-> parsed.is4, val |-> parsed.val])

Decide_Same(isBlocklist, inList) == isBlocklist = inList

\* allowed := isBlocklist != inList
Decide(isBlocklist, inList) == isBlocklist # inList

IsIPAllowed(clientIP) ==
    IF ~IsDeploymentEnabled THEN [allowed |-> TRUE, err |-> "nil"]
    ELSE [allowed |-> Decide(m.edlMode = "blocklist", MatcherContains(clientIP)),
          err |-> "nil"]

IsIPAllowedWithStats(clientIP) ==
    IF ~IsDeploymentEnabled THEN [allowed |-> TRUE, err |-> "nil"]
    ELSE LET parsed == ParseAddr(clientIP)
         IN  IF ~parsed.ok THEN [allowed |-> FALSE, err |-> "invalid IP"]
             ELSE [allowed |->
                      Decide(m.edlMode = "blocklist",
                             MatcherContainsAddr([is4 |-> parsed.is4, val |-> parsed.val])),
                   err |-> "nil"]

---------------------------------------------------------------------------
(* Spec: Initialize, the background goroutines and the dispatcher.         *)
(* Every call to the control plane or to the EDL URL is one step, taken    *)
(* when its answer arrives; the answer is chosen freely.                   *)

MaxPending == 1

NoRequest ==
    [handled |-> FALSE, clientIP |-> <<>>, debug |-> FALSE, outcome |-> "none",
     blockEvent |-> FALSE, toShipper |-> FALSE,
     nextCalls |-> 0, written |-> <<>>, events |-> 0, sent |-> 0]

InitMgrIdle ==
    /\ init = [once |-> "new", initErr |-> "nil", instance |-> "nil", token |-> <<>>,
               pc |-> "none", bootstrapErr |-> "none", runs |-> 0]
    /\ callers = [c \in Callers |-> [pc |-> "idle", ret |-> "none"]]
    /\ m = [deploymentEnabled |-> FALSE, temporarilyDisabled |-> FALSE, edlMode |-> "",
            edlURL |-> "", edlUpdateFreq |-> 0, edlUpdater |-> FALSE,
            logShipper |-> FALSE]
    /\ tm = [currentToken |-> "", configURL |-> "", logsURL |-> "",
             deploymentDeleted |-> FALSE]
    /\ u = [url |-> "", updateFrequency |-> 0, lastError |-> FALSE]
    /\ matcher = [trie |-> NewTrie, count |-> 0, src |-> "new"]
    /\ rt = [supervisors |-> 0, spc |-> "wait", refreshLoop |-> FALSE, rpc |-> "wait",
             updateLoops |-> 0, pending |-> 0]
    /\ seen = [cpCalled |-> FALSE, got410 |-> FALSE, initBootstraps |-> 0,
               lastOK |-> FALSE, lastToken |-> "", lastURL |-> ""]
    /\ lastReq = NoRequest

OnceDo_NoWait(state) == IF state = "new" THEN "run" ELSE "return"

\* sync.Once.Do as seen by a caller: run the body, wait for the running
\* body to finish, or return at once because it has finished
OnceDo(state) ==
    IF state = "new" THEN "run" ELSE IF state = "running" THEN "wait" ELSE "return"

\* the once body has ended: Initialize returns initErr
BodyDone(i, err) == [i EXCEPT !.once = "done", !.pc = "none", !.initErr = err]

\* Initialize(bootstrapToken, ...) is called; the first caller runs the
\* body up to the bootstrap call (lines 47-103)
InitializeCall(c, token) ==
    /\ callers[c].pc = "idle"
    /\ LET how == OnceDo(init.once)
           err == ValidateBootstrapToken(token)
       IN  CASE how = "run" ->
                  /\ init' = [init EXCEPT
                                !.once = IF err = "nil" THEN "running" ELSE "done",
                                !.initErr = err,
                                !.instance = IF token = <<>> THEN "nil" ELSE "manager",
                                !.token = token,
                                !.pc = IF err = "nil" THEN "bootstrap" ELSE "none",
                                !.runs = @ + 1]
                  /\ callers' = [callers EXCEPT ![c] =
                                   [pc |-> "running", ret |-> "none"]]
             [] how = "wait" ->
                  /\ callers' = [callers EXCEPT ![c] =
                                   [pc |-> "blocked", ret |-> "none"]]
                  /\ UNCHANGED init
             [] OTHER ->
                  /\ callers' = [callers EXCEPT ![c] =
                                   [pc |-> "returned", ret |-> init.initErr]]
                  /\ UNCHANGED init
    /\ UNCHANGED <<m, tm, u, matcher, rt, seen>>
    /\ lastReq' = NoRequest
    /\ UNCHANGED <<trieVars, matVars, updVars, dx, shipVars, rf, auxVars>>

\* once.Do has returned to this caller: return initErr (line 230)
InitializeReturn(c) ==
    /\ callers[c].pc \in {"running", "blocked"}
    /\ init.once = "done"
    /\ callers' = [callers EXCEPT ![c].pc = "returned", ![c].ret = init.initErr]
    /\ UNCHANGED <<init, m, tm, u, matcher, rt, seen>>
    /\ lastReq' = NoRequest
    /\ UNCHANGED <<trieVars, matVars, updVars, dx, shipVars, rf, auxVars>>

Issued(token, resp) ==
    [seen EXCEPT !.cpCalled = @ \/ BootstrapLocalError(token) = "nil",
                 !.got410 = @ \/ (BootstrapLocalError(token) = "nil" /\ resp.status = "410"),
                 !.lastOK = BootstrapErr(token, resp) = "nil",
                 !.lastToken = IF BootstrapErr(token, resp) = "nil"
                               THEN resp.access_token ELSE @,
                 !.lastURL = IF BootstrapErr(token, resp) = "nil"
                             THEN resp.config_url ELSE @]

\* Initialize, lines 105-158: tokenManager.Initialize answers
InitBootstrap(resp) ==
    /\ init.pc = "bootstrap"
    /\ LET err    == BootstrapErr(init.token, resp)
           tm1    == TokenManagerBootstrap(tm, init.token, resp)
           perm   == IsPermanentError(err)
           temp   == IsTemporaryDisabled(err)
           fatal  == err # "nil" /\ ~perm /\ ~temp
           active == IsDeploymentActive(tm1)
       IN  /\ tm' = tm1
           /\ seen' = [Issued(init.token, resp) EXCEPT !.initBootstraps = @ + 1]
           /\ IF fatal
              THEN /\ init' = [BodyDone(init, err) EXCEPT !.bootstrapErr = err]
                   /\ UNCHANGED <<m, rt>>
              ELSE /\ m' = [m EXCEPT !.temporarilyDisabled = @ \/ temp,
                                     !.logShipper = @ \/ tm1.logsURL # "",
                                     !.deploymentEnabled = active]
                   /\ rt' = [rt EXCEPT !.supervisors = IF temp THEN @ + 1 ELSE @]
                   /\ init' = IF active
                              THEN [init EXCEPT !.pc = "config", !.bootstrapErr = err]
                              ELSE [BodyDone(init, "nil") EXCEPT !.bootstrapErr = err]
    /\ UNCHANGED <<callers, u, matcher>>
    /\ lastReq' = NoRequest
    /\ UNCHANGED <<trieVars, matVars, updVars, dx, shipVars, rf, auxVars>>

ConfigIssued(resp) ==
    [seen EXCEPT !.cpCalled = @ \/ tm.configURL # "",
                 !.got410 = @ \/ (tm.configURL # "" /\ resp.status = "410")]

\* Initialize, lines 164-208: fetchEDLConfig answers
InitFetchConfig(resp) ==
    /\ init.pc = "config"
    /\ LET err  == ConfigErr(tm, resp)
           perm == IsPermanentError(err)
           temp == IsTemporaryDisabled(err)
           c    == resp.config
       IN  /\ seen' = ConfigIssued(resp)
           /\ IF err # "nil" /\ ~perm /\ ~temp
              THEN /\ init' = BodyDone(init, err)
                   /\ UNCHANGED <<m, u, rt>>
              ELSE IF err = "nil" /\ HasURL(c)
              THEN /\ m' = [m EXCEPT !.edlMode = ModeOfPurpose(c.purpose),
                                     !.edlURL = c.combined[1],
                                     !.edlUpdateFreq = FreqOfConfig(c),
                                     !.edlUpdater = TRUE]
                   /\ u' = [url |-> c.combined[1], updateFrequency |-> FreqOfConfig(c),
                            lastError |-> FALSE]
                   /\ init' = [init EXCEPT !.pc = "edl"]
                   /\ UNCHANGED rt
              ELSE /\ m' = [m EXCEPT !.temporarilyDisabled = @ \/ temp,
                                     !.deploymentEnabled = FALSE]
                   /\ rt' = [rt EXCEPT !.supervisors = IF temp THEN @ + 1 ELSE @]
                   /\ init' = BodyDone(init, "nil")
                   /\ UNCHANGED u
    /\ UNCHANGED <<callers, tm, matcher>>
    /\ lastReq' = NoRequest
    /\ UNCHANGED <<trieVars, matVars, updVars, dx, shipVars, rf, auxVars>>

\* EDLUpdater.updateNow once fetchWithRetry has ended
UpdateNow(out) ==
    /\ matcher' = IF out.ok
                  THEN [trie |-> out.list.trie, count |-> out.list.count, src |-> u.url]
                  ELSE matcher
    /\ u' = [u EXCEPT !.lastError = ~out.ok]

\* Initialize, lines 212-221: edlUpdater.Start answers
InitStartUpdater(out) ==
    /\ init.pc = "edl"
    /\ UpdateNow(out)
    /\ IF out.ok
       THEN /\ rt' = [rt EXCEPT !.refreshLoop = TRUE, !.updateLoops = @ + 1]
            /\ init' = BodyDone(init, "nil")
       ELSE /\ init' = BodyDone(init, "initial EDL fetch failed")
            /\ UNCHANGED rt
    /\ seen' = [seen EXCEPT !.cpCalled = TRUE]
    /\ UNCHANGED <<callers, m, tm>>
    /\ lastReq' = NoRequest
    /\ UNCHANGED <<trieVars, matVars, updVars, dx, shipVars, rf, auxVars>>

\* EDLUpdater.Reconfigure: store url and frequency, start "go updateNow"
Reconfigure(url, freq) ==
    /\ u' = [u EXCEPT !.url = url, !.updateFrequency = freq]
    /\ rt' = [rt EXCEPT !.pending = @ + 1, !.rpc = "wait"]

\* startDisabledRetryLoop, a tick: the bootstrap retry answers.  The first
\* tick comes a minute after the goroutine started, after the once body.
SupervisorTick(resp) ==
    /\ rt.supervisors > 0
    /\ rt.spc = "wait"
    /\ init.once = "done"
    /\ IF ~m.temporarilyDisabled
       THEN UNCHANGED <<m, tm, rt, seen>>
       ELSE LET err == BootstrapErr(init.token, resp)
            IN  /\ tm' = TokenManagerBootstrap(tm, init.token, resp)
                /\ seen' = Issued(init.token, resp)
                /\ IF err = "nil"
                   THEN /\ m' = [m EXCEPT !.temporarilyDisabled = FALSE,
                                          !.deploymentEnabled = TRUE]
                        /\ rt' = [rt EXCEPT !.spc = "config"]
                   ELSE IF IsPermanentError(err)
                   THEN /\ m' = [m EXCEPT !.temporarilyDisabled = FALSE,
                                          !.deploymentEnabled = FALSE]
                        /\ rt' = [rt EXCEPT !.supervisors = @ - 1]
                   ELSE UNCHANGED <<m, rt>>
    /\ UNCHANGED <<init, callers, u, matcher>>
    /\ lastReq' = NoRequest
    /\ UNCHANGED <<trieVars, matVars, updVars, dx, shipVars, rf, auxVars>>

SupervisorExit == [rt EXCEPT !.supervisors = @ - 1, !.spc = "wait"]

\* startDisabledRetryLoop, lines 516-550: fetchEDLConfig answers
SupervisorFetchConfig(resp) ==
    /\ rt.spc = "config"
    /\ LET err == ConfigErr(tm, resp)
           c   == resp.config
       IN  /\ seen' = ConfigIssued(resp)
           /\ IF err = "nil" /\ HasURL(c)
              THEN /\ m' = [m EXCEPT !.edlMode = ModeOfPurpose(c.purpose),
                                     !.edlURL = c.combined[1],
                                     !.edlUpdateFreq = FreqOfConfig(c),
                                     !.edlUpdater = TRUE]
                   /\ IF m.edlUpdater
                      THEN /\ u' = [u EXCEPT !.url = c.combined[1],
                                             !.updateFrequency = FreqOfConfig(c)]
                           /\ rt' = [SupervisorExit EXCEPT !.pending = @ + 1,
                                                           !.updateLoops = @ + 1]
                      ELSE /\ u' = [url |-> c.combined[1],
                                    updateFrequency |-> FreqOfConfig(c),
                                    lastError |-> FALSE]
                           /\ rt' = [rt EXCEPT !.spc = "edl"]
              ELSE /\ rt' = SupervisorExit
                   /\ UNCHANGED <<m, u>>
    /\ UNCHANGED <<init, callers, tm, matcher>>
    /\ lastReq' = NoRequest
    /\ UNCHANGED <<trieVars, matVars, updVars, dx, shipVars, rf, auxVars>>

\* startDisabledRetryLoop, lines 543-546: the new updater's Start answers
SupervisorStartUpdater(out) ==
    /\ rt.spc = "edl"
    /\ UpdateNow(out)
    /\ rt' = [SupervisorExit EXCEPT !.updateLoops = IF out.ok THEN @ + 1 ELSE @]
    /\ seen' = [seen EXCEPT !.cpCalled = TRUE]
    /\ UNCHANGED <<init, callers, m, tm>>
    /\ lastReq' = NoRequest
    /\ UNCHANGED <<trieVars, matVars, updVars, dx, shipVars, rf, auxVars>>

\* StartRefreshLoop, the timer fires: stop if deleted, else refresh; after
\* a successful refresh CheckConfigUpdates starts its config fetch
RefreshTick(resp) ==
    /\ rt.refreshLoop
    /\ rt.rpc = "wait"
    /\ IF tm.deploymentDeleted
       THEN /\ rt' = [rt EXCEPT !.refreshLoop = FALSE]
            /\ UNCHANGED <<tm, seen>>
       ELSE /\ tm' = TokenManagerBootstrap(tm, init.token, resp)
            /\ seen' = Issued(init.token, resp)
            /\ rt' = IF BootstrapErr(init.token, resp) = "nil"
                     THEN [rt EXCEPT !.rpc = "check"]
                     ELSE rt
    /\ UNCHANGED <<init, callers, m, u, matcher>>
    /\ lastReq' = NoRequest
    /\ UNCHANGED <<trieVars, matVars, updVars, dx, shipVars, rf, auxVars>>

\* CheckConfigUpdates on manager fields mgr: enabled is IsDeploymentEnabled(),
\* err and c what fetchEDLConfig returns.  The result is the manager's
\* fields afterwards, whether a config request was made, and whether
\* Reconfigure was called.
ConfigCheck(mgr, enabled, err, c) ==
    LET newURL  == c.combined[1]
        newFreq == FreqOfConfig(c)
        newMode == ModeOfPurpose(c.purpose)
    IN  IF ~enabled
        THEN [m |-> mgr, fetched |-> FALSE, reconfigure |-> FALSE]
        ELSE IF err # "nil"
        THEN [m |-> IF IsPermanentError(err)
                    THEN [mgr EXCEPT !.deploymentEnabled = FALSE]
                    ELSE IF IsTemporaryDisabled(err)
                    THEN [mgr EXCEPT !.temporarilyDisabled = TRUE]
                    ELSE mgr,
              fetched |-> TRUE, reconfigure |-> FALSE]
        ELSE IF ~HasURL(c)
                \/ (mgr.edlURL = newURL /\ mgr.edlUpdateFreq = newFreq
                      /\ mgr.edlMode = newMode)
        THEN [m |-> mgr, fetched |-> TRUE, reconfigure |-> FALSE]
        ELSE [m |-> [mgr EXCEPT !.edlURL = newURL, !.edlUpdateFreq = newFreq,
                                !.edlMode = newMode],
              fetched |-> TRUE, reconfigure |-> mgr.edlUpdater]

\* CheckConfigUpdates, lines 379-462, called by refresh
CheckConfigUpdates(resp) ==
    /\ rt.rpc = "check"
    /\ rt.pending < MaxPending
    /\ LET r == ConfigCheck(m, IsDeploymentEnabled, ConfigErr(tm, resp), resp.config)
       IN  /\ seen' = IF r.fetched THEN ConfigIssued(resp) ELSE seen
           /\ m' = r.m
           /\ IF r.reconfigure
              THEN Reconfigure(r.m.edlURL, r.m.edlUpdateFreq)
              ELSE /\ rt' = [rt EXCEPT !.rpc = "wait"]
                   /\ UNCHANGED u
    /\ UNCHANGED <<init, callers, tm, matcher>>
    /\ lastReq' = NoRequest
    /\ UNCHANGED <<trieVars, matVars, updVars, dx, shipVars, rf, auxVars>>

\* StartUpdateLoop, case <-ticker.C
UpdateLoopTick(out) ==
    /\ rt.updateLoops > 0
    /\ UpdateNow(out)
    /\ UNCHANGED <<init, callers, m, tm, rt, seen>>
    /\ lastReq' = NoRequest
    /\ UNCHANGED <<trieVars, matVars, updVars, dx, shipVars, rf, auxVars>>

\* the "go updateNow" that Reconfigure started
ReconfigureUpdate(out) ==
    /\ rt.pending > 0
    /\ UpdateNow(out)
    /\ rt' = [rt EXCEPT !.pending = @ - 1]
    /\ UNCHANGED <<init, callers, m, tm, seen>>
    /\ lastReq' = NoRequest
    /\ UNCHANGED <<trieVars, matVars, updVars, dx, shipVars, rf, auxVars>>

\* New returned a handler to the proxy: some Initialize call returned nil
HandlerBuilt == \E c \in Callers : callers[c].pc = "returned" /\ callers[c].ret = "nil"

\* the client IP texts the dispatcher hands to the manager in this model
ClientIPs ==
    {FormatAddr(FirstV4), FormatAddr(LastV4), FormatAddr(LastV6), BadText, <<>>}

\* what one run of ServeHTTP does: calls of the next handler, the status
\* codes written to the response, block events created
CallNext == [nextCalls |-> 1, written |-> <<>>, events |-> 0]

Answer(status, events) == [nextCalls |-> 0, written |-> <<status>>, events |-> events]

Dispatch_BlockAndNext(managerNil, enabled, clientIP, res) ==
    IF managerNil \/ ~enabled THEN CallNext
    ELSE IF clientIP = <<>> THEN Answer("400", 0)
    ELSE IF res.err # "nil" THEN Answer("400", 0)
    ELSE [nextCalls |-> 1, written |-> IF res.allowed THEN <<>> ELSE <<"403">>,
          events |-> IF res.allowed THEN 0 ELSE 1]

Dispatch(managerNil, enabled, clientIP, res) ==
    IF managerNil THEN CallNext
    ELSE IF ~enabled THEN CallNext
    ELSE IF clientIP = <<>> THEN Answer("400", 0)
    ELSE IF res.err # "nil" THEN Answer("400", 0)
    ELSE IF res.allowed THEN CallNext
    ELSE Answer("403", 1)

\* Manager.SendBlockEvent: how many SendEvent calls one block event causes
SendBlockEvent == IF m.logShipper THEN 1 ELSE 0

\* ServeHTTP for a request whose extracted client IP is clientIP; debugMode
\* is logger.IsDebugEnabled()
ServeHTTP(clientIP, debugMode) ==
    /\ HandlerBuilt
    /\ LET res == IF debugMode THEN IsIPAllowedWithStats(clientIP)
                  ELSE IsIPAllowed(clientIP)
           fx  == Dispatch(init.instance = "nil", IsDeploymentEnabled, clientIP, res)
       IN  lastReq' = [handled |-> TRUE, clientIP |-> clientIP, debug |-> debugMode,
                       outcome |-> IF fx.written = <<>> THEN "next" ELSE fx.written[1],
                       blockEvent |-> fx.events = 1,
                       toShipper |-> fx.events = 1 /\ SendBlockEvent = 1,
                       nextCalls |-> fx.nextCalls, written |-> fx.written,
                       events |-> fx.events, sent |-> fx.events * SendBlockEvent]
    /\ UNCHANGED <<init, callers, m, tm, u, matcher, rt, seen>>
    /\ UNCHANGED <<trieVars, matVars, updVars, dx, shipVars, rf, auxVars>>

\* Spec follows the first middleware instance the proxy builds
FirstCaller == CHOOSE c \in Callers : \A d \in Callers : c <= d

NextMgr ==
    \/ \E token \in Tokens : InitializeCall(FirstCaller, token)
    \/ InitializeReturn(FirstCaller)
    \/ \E resp \in BootstrapResponses : InitBootstrap(resp)
    \/ \E resp \in ConfigResponses : InitFetchConfig(resp)
    \/ \E out \in FetchOutcomes : InitStartUpdater(out)
    \/ \E resp \in BootstrapResponses : SupervisorTick(resp)
    \/ \E resp \in ConfigResponses : SupervisorFetchConfig(resp)
    \/ \E out \in FetchOutcomes : SupervisorStartUpdater(out)
    \/ \E resp \in BootstrapResponses : RefreshTick(resp)
    \/ \E resp \in ConfigResponses : CheckConfigUpdates(resp)
    \/ \E out \in FetchOutcomes : UpdateLoopTick(out)
    \/ \E out \in FetchOutcomes : ReconfigureUpdate(out)
    \/ \E ip \in ClientIPs, debugMode \in BOOLEAN : ServeHTTP(ip, debugMode)

---------------------------------------------------------------------------
(* SpecUpdater: EDLUpdater.updateNow step by step.  Each fetch attempt is  *)
(* one step, taken when its response has been read; the clock moves with   *)
(* every attempt.  Between two attempts fetchWithRetry waits in a select   *)
(* on its context and a timer; the context of a call may be cancelled.     *)

NUpdateCalls == 2

MaxUpdateNow == 2

MaxAttempts == 3

UpdateCalls == 1..NUpdateCalls

\* what an attempt may read: no response, a non-200 status, or a 200 whose
\* body is the blob of a list, possibly damaged
EDLBodies ==
    {Damage(Serialize(l.trie, omitEmpty), how) :
        l \in {ListNone, ListOne, ListAll}, omitEmpty \in {TRUE},
        how \in {"none", "magic"}}

EDLResponses ==
    {[status |-> "200", body |-> b] : b \in EDLBodies}
    \cup {[status |-> st, body |-> Serialize(NewTrie, TRUE)] : st \in {"500", "neterr"}}

\* EDLUpdater.fetch: one GET and parseEDL
fetch(resp) ==
    IF resp.status = "neterr" THEN [err |-> "neterr", trie |-> NewTrie, count |-> 0]
    ELSE IF resp.status # "200"
    THEN [err |-> "unexpected status", trie |-> NewTrie, count |-> 0]
    ELSE LoadPrecomputedTrie(resp.body)

IdleCall ==
    [pc |-> "idle", attempt |-> 0, lastErr |-> "nil", waits |-> <<>>,
     fetches |-> 0, cancelled |-> FALSE, ret |-> "none"]

InitUpdIdle ==
    /\ ed = [url |-> "u1", lastUpdate |-> 0, lastError |-> "nil", updateCount |-> 0,
             started |-> 0, now |-> 1]
    /\ calls = [c \in UpdateCalls |-> IdleCall]

\* updateNow is entered (by Start, a tick of the update loop, or Reconfigure)
UpdaterCall(c) ==
    /\ calls[c].pc \in {"idle", "ok", "failed"}
    /\ ed.started < MaxUpdateNow
    /\ calls' = [calls EXCEPT ![c] = [IdleCall EXCEPT !.pc = "fetch"]]
    /\ ed' = [ed EXCEPT !.started = @ + 1]
    /\ UNCHANGED matcher
    /\ UNCHANGED <<init, callers, m, tm, u, rt, seen, lastReq>>
    /\ UNCHANGED <<trieVars, matVars, dx, shipVars, rf, auxVars>>

OnFetchError_Counted(e, err) == [e EXCEPT !.lastError = err, !.updateCount = @ + 1]

\* updateNow, lines 352-357: u.lastError = err
OnFetchError(e, err) == [e EXCEPT !.lastError = err]

\* updateNow, lines 359-366: Update the matcher, then the status fields
OnFetchOK(e) ==
    [e EXCEPT !.lastUpdate = e.now, !.lastError = "nil", !.updateCount = @ + 1]

\* a wait of two seconds before every retry
WaitBefore_Fixed(attempt) == 2

\* fetchWithRetry, line 397: the wait before this attempt (seconds)
WaitBefore(attempt) == attempt * 2

\* one attempt of fetchWithRetry has ended, and with it possibly updateNow
UpdaterFetch(c, resp) ==
    /\ calls[c].pc = "fetch"
    /\ LET res    == fetch(resp)
           ticked == [ed EXCEPT !.now = @ + 1]
       IN  IF res.err = "nil"
           THEN /\ matcher' = [trie |-> res.trie, count |-> res.count, src |-> ed.url]
                /\ ed' = OnFetchOK(ticked)
                /\ calls' = [calls EXCEPT ![c] =
                               [@ EXCEPT !.pc = "ok", !.fetches = @ + 1, !.ret = "nil"]]
           ELSE IF calls[c].attempt + 1 < MaxAttempts
           THEN /\ calls' = [calls EXCEPT ![c] =
                               [@ EXCEPT !.pc = "wait", !.attempt = @ + 1,
                                         !.fetches = @ + 1, !.lastErr = res.err]]
                /\ ed' = ticked
                /\ UNCHANGED matcher
           ELSE /\ calls' = [calls EXCEPT ![c] =
                               [@ EXCEPT !.pc = "failed", !.attempt = @ + 1,
                                         !.fetches = @ + 1, !.lastErr = res.err,
                                         !.ret = res.err]]
                /\ ed' = OnFetchError(ticked, res.err)
                /\ UNCHANGED matcher
    /\ UNCHANGED <<init, callers, m, tm, u, rt, seen, lastReq>>
    /\ UNCHANGED <<trieVars, matVars, dx, shipVars, rf, auxVars>>

\* the context of an updateNow that waits between two attempts is cancelled
UpdaterCancel(c) ==
    /\ calls[c].pc = "wait"
    /\ ~calls[c].cancelled
    /\ calls' = [calls EXCEPT ![c].cancelled = TRUE]
    /\ UNCHANGED <<ed, matcher>>
    /\ UNCHANGED <<init, callers, m, tm, u, rt, seen, lastReq>>
    /\ UNCHANGED <<trieVars, matVars, dx, shipVars, rf, auxVars>>

\* fetchWithRetry, lines 394-398, case <-time.After(attempt * 2 s): the
\* timer comes first, the context is not done
UpdaterWaitOver(c) ==
    /\ calls[c].pc = "wait"
    /\ ~calls[c].cancelled
    /\ calls' = [calls EXCEPT ![c] =
                   [@ EXCEPT !.pc = "fetch",
                             !.waits = Append(@, WaitBefore(calls[c].attempt))]]
    /\ UNCHANGED <<ed, matcher>>
    /\ UNCHANGED <<init, callers, m, tm, u, rt, seen, lastReq>>
    /\ UNCHANGED <<trieVars, matVars, dx, shipVars, rf, auxVars>>

\* fetchWithRetry, lines 394-396, case <-ctx.Done(): return ctx.Err(),
\* which updateNow records
UpdaterWaitCancelled(c) ==
    /\ calls[c].pc = "wait"
    /\ calls[c].cancelled
    /\ calls' = [calls EXCEPT ![c] =
                   [@ EXCEPT !.pc = "failed", !.ret = "context canceled"]]
    /\ ed' = OnFetchError(ed, "context canceled")
    /\ UNCHANGED matcher
    /\ UNCHANGED <<init, callers, m, tm, u, rt, seen, lastReq>>
    /\ UNCHANGED <<trieVars, matVars, dx, shipVars, rf, auxVars>>

NextUpdater ==
    \/ \E c \in UpdateCalls : UpdaterCall(c)
    \/ \E c \in UpdateCalls, resp \in EDLResponses : UpdaterFetch(c, resp)
    \/ \E c \in UpdateCalls : UpdaterCancel(c)
    \/ \E c \in UpdateCalls : UpdaterWaitOver(c)
    \/ \E c \in UpdateCalls : UpdaterWaitCancelled(c)

---------------------------------------------------------------------------
(* SpecExtract: extractClientIP on a request.  Texts are sequences of      *)
(* characters; an absent header is the empty text.                         *)

\* index of the last / first occurrence of ch in text, 0 if none
LastIndexOf(text, ch) ==
    LET at == {i \in 1..Len(text) : text[i] = ch}
    IN  IF at = {} THEN 0 ELSE CHOOSE i \in at : \A j \in at : j <= i

FirstIndexOf(text, ch) ==
    LET at == {i \in 1..Len(text) : text[i] = ch}
    IN  IF at = {} THEN 0 ELSE CHOOSE i \in at : \A j \in at : i <= j

\* net.SplitHostPort: "host:port" or "[host]:port"
SplitHostPort(text) ==
    LET i    == LastIndexOf(text, ":")
        fail == [ok |-> FALSE, host |-> <<>>]
    IN  IF i = 0 THEN fail
        ELSE IF text[1] = "["
        THEN LET e == FirstIndexOf(text, "]")
             IN  IF e = 0 \/ e + 1 # i THEN fail
                 ELSE [ok |-> TRUE, host |-> SubSeq(text, 2, e - 1)]
        ELSE LET host == SubSeq(text, 1, i - 1)
             IN  IF FirstIndexOf(host, ":") # 0 THEN fail
                 ELSE [ok |-> TRUE, host |-> host]

getDirectIP(remoteAddr) ==
    LET split == SplitHostPort(remoteAddr)
    IN  IF split.ok THEN split.host ELSE remoteAddr

\* strings.TrimSpace
RECURSIVE TrimLeft(_)
TrimLeft(text) ==
    IF text # <<>> /\ text[1] = " " THEN TrimLeft(Tail(text)) ELSE text

RECURSIVE TrimRight(_)
TrimRight(text) ==
    IF text # <<>> /\ text[Len(text)] = " "
    THEN TrimRight(SubSeq(text, 1, Len(text) - 1)) ELSE text

TrimSpace(text) == TrimRight(TrimLeft(text))

\* strings.Split(text, ",")[0]
FirstField(text) ==
    LET i == FirstIndexOf(text, ",")
    IN  IF i = 0 THEN text ELSE SubSeq(text, 1, i - 1)

\* netip.Prefix.Contains: same family, same leading Bits bits
PrefixContains(p, a) ==
    /\ p.is4 = a.is4
    /\ a.val \div Pow2(Width(p.is4) - p.bits) = p.addr \div Pow2(Width(p.is4) - p.bits)

AlwaysTrusted(ip, proxies) == TRUE

isFromTrustedProxy(ip, proxies) ==
    LET parsed == ParseAddr(ip)
    IN  /\ parsed.ok
        /\ \E i \in 1..Len(proxies) :
              PrefixContains(proxies[i], [is4 |-> parsed.is4, val |-> parsed.val])

extractClientIP(cfg, req) ==
    LET directIP == getDirectIP(req.RemoteAddr)
    IN  IF cfg.IPStrategy = "direct" \/ Len(cfg.trustedProxies) = 0 THEN directIP
        ELSE IF ~isFromTrustedProxy(directIP, cfg.trustedProxies) THEN directIP
        ELSE IF cfg.IPStrategy = "xff" /\ req.xff # <<>>
        THEN TrimSpace(FirstField(req.xff))
        ELSE IF cfg.IPStrategy = "real-ip" /\ req.realip # <<>>
        THEN TrimSpace(req.realip)
        ELSE IF cfg.IPStrategy = "custom" /\ cfg.TrustedHeader # "" /\ req.custom # <<>>
        THEN TrimSpace(req.custom)
        ELSE directIP

\* "host:port" (IPv4) or "[host]:port" (IPv6) of a peer address
HostPort(a) ==
    IF a.is4 THEN FormatAddr(a) \o <<":", "8">>
    ELSE <<"[">> \o FormatAddr(a) \o <<"]", ":", "8">>

RemoteAddrs ==
    {HostPort(FirstV4), HostPort(LastV4), HostPort(LastV6), FormatAddr(LastV4), BadText}

\* header values: absent, one address, a padded list, a list whose first
\* entry is empty, not an address
HeaderValues ==
    {<<>>, FormatAddr(LastV4),
     <<" ">> \o FormatAddr(FirstV4) \o <<" ", ",", " ">> \o FormatAddr(LastV4),
     <<",", " ">> \o FormatAddr(LastV4),
     BadText}

Requests ==
    [RemoteAddr : RemoteAddrs, xff : HeaderValues,
     realip : {<<>>, FormatAddr(LastV6) \o <<" ">>},
     custom : {<<>>, FormatAddr(FirstV4)}]

\* the middleware's configuration after New: strategy, header name and the
\* parsed trusted-proxy prefixes
ExtractConfigs ==
    [IPStrategy : {"direct", "xff", "real-ip", "custom", "other"},
     TrustedHeader : {"", "X-Client"},
     trustedProxies : {<<>>,
                       <<Prefix(TRUE, 0, V4Bits)>>,
                       <<Prefix(TRUE, LastV4.val, 1), Prefix(FALSE, 0, 0)>>}]

IdleExtract ==
    [pc |-> "idle",
     cfg |-> [IPStrategy |-> "direct", TrustedHeader |-> "", trustedProxies |-> <<>>],
     req |-> [RemoteAddr |-> <<>>, xff |-> <<>>, realip |-> <<>>, custom |-> <<>>],
     clientIP |-> <<>>]

InitExtractIdle == dx = IdleExtract

\* a request reaches a middleware instance
RequestArrives(cfg, req) ==
    /\ dx.pc = "idle"
    /\ dx' = [pc |-> "arrived", cfg |-> cfg, req |-> req, clientIP |-> <<>>]
    /\ UNCHANGED <<trieVars, matVars, mgrVars, updVars, shipVars, rf, auxVars>>

\* clientIP := e.extractClientIP(req)
ExtractClientIP ==
    /\ dx.pc = "arrived"
    /\ dx' = [dx EXCEPT !.pc = "done", !.clientIP = extractClientIP(dx.cfg, dx.req)]
    /\ UNCHANGED <<trieVars, matVars, mgrVars, updVars, shipVars, rf, auxVars>>

\* the handler returns; the instance waits for the next request
RequestServed ==
    /\ dx.pc = "done"
    /\ dx' = IdleExtract
    /\ UNCHANGED <<trieVars, matVars, mgrVars, updVars, shipVars, rf, auxVars>>

NextExtract ==
    \/ \E cfg \in ExtractConfigs, req \in Requests : RequestArrives(cfg, req)
    \/ ExtractClientIP
    \/ RequestServed

---------------------------------------------------------------------------
(* SpecShipper: pkg/logs LogShipper.  Events are numbered in the order     *)
(* SendEvent accepts them; 0 stands for a nil *BlockEvent.  The ring       *)
(* buffer is the sequence of its events from head to tail.  The clock      *)
(* counts units of which Second make a second; the bucket keeps the time   *)
(* since lastRefill.                                                       *)

ChanCap == 1

BufferSize == 3

BatchSize == 2

BucketCapacity == 1

RefillRate == 2

Second == 3

MaxEvents == 4

CheckReads == 1

maxRetries == 3

Min(a, b) == IF a < b THEN a ELSE b

\* RingBuffer.Add: a full buffer overwrites its oldest event; the result is
\* true either way
RingAdd(ring, event) ==
    IF Len(ring) >= BufferSize
    THEN [ring |-> Append(Tail(ring), event), ok |-> TRUE]
    ELSE [ring |-> Append(ring, event), ok |-> TRUE]

\* a Drain that takes everything
RingDrain_All(ring, n) == [events |-> ring, ring |-> <<>>]

\* RingBuffer.Drain(n) / DrainAll
RingDrain(ring, n) ==
    LET count == Min(n, Len(ring))
    IN  [events |-> SubSeq(ring, 1, count), ring |-> SubSeq(ring, count + 1, Len(ring))]

\* the loop "for _, event := range events { if !s.buffer.Add(event) {
\* s.eventsDropped++; ReturnToPool(event) } }"
RECURSIVE Rebuffer(_, _)
Rebuffer(s, events) ==
    IF events = <<>> THEN s
    ELSE LET r == RingAdd(s.ring, Head(events))
         IN  Rebuffer([ring |-> r.ring,
                       dropped |-> IF r.ok THEN s.dropped ELSE s.dropped + 1,
                       pooled |-> IF r.ok THEN s.pooled ELSE s.pooled + 1],
                      Tail(events))

refill_NoCap(b) ==
    LET tokensToAdd == (b.since * RefillRate) \div Second
    IN  IF tokensToAdd > 0
        THEN [tokens |-> b.tokens + tokensToAdd, since |-> 0]
        ELSE b

\* LeakyBucket.refill on [tokens, since]
refill(b) ==
    LET tokensToAdd == (b.since * RefillRate) \div Second
    IN  IF tokensToAdd > 0
        THEN [tokens |-> Min(BucketCapacity, b.tokens + tokensToAdd), since |-> 0]
        ELSE b

\* LeakyBucket.WaitTime(tokens), in clock units, after its refill
WaitTime(b, tokens) ==
    IF refill(b).tokens >= tokens THEN 0
    ELSE ((tokens - refill(b).tokens) * Second) \div RefillRate

Allow_NoCheck(b, tokens) ==
    [ok |-> TRUE,
     b |-> [refill(b) EXCEPT !.tokens = IF @ >= tokens THEN @ - tokens ELSE @]]

\* LeakyBucket.Allow(tokens)
Allow(b, tokens) ==
    IF refill(b).tokens >= tokens
    THEN [ok |-> TRUE, b |-> [refill(b) EXCEPT !.tokens = @ - tokens]]
    ELSE [ok |-> FALSE, b |-> refill(b)]

Bucket(s) == [tokens |-> s.tokens, since |-> s.since]

\* time passes: d clock units more since lastRefill (kept up to a second,
\* where the bucket refills to its capacity anyway)
Elapse(s, d) == [s EXCEPT !.since = Min(Second, @ + d)]

\* one answer to a POST, or no POST for want of a logs URL or access token
SendResponses == {"2xx", "500", "neterr", "unavailable"}

\* the event numbers of a sequence of events
EventsOf(events) == {events[i] : i \in 1..Len(events)} \ {0}

IdleWorker ==
    [pc |-> "select", batch |-> <<>>, i |-> 0, events |-> <<>>, cont |-> "none",
     rest |-> <<>>, d |-> 0, attempt |-> 0, posts |-> 0, result |-> "none",
     pooled |-> 0, stop |-> "none"]

InitShipIdle ==
    /\ sh = [ch |-> <<>>, ring |-> <<>>, tokens |-> BucketCapacity, since |-> 0,
             shipped |-> 0, dropped |-> 0, cancelled |-> FALSE, panicked |-> FALSE]
    /\ wk = IdleWorker
    /\ obs = [accepted |-> 0, attempted |-> {}]

Others == <<trieVars, matVars, mgrVars, updVars, dx, rf, auxVars>>

\* LogShipper.SendEvent, called by a request goroutine
SendEvent_Blocking ==
    /\ obs.accepted < MaxEvents
    /\ ~sh.cancelled
    /\ Len(sh.ch) < ChanCap
    /\ sh' = [sh EXCEPT !.ch = Append(@, obs.accepted + 1)]
    /\ obs' = [obs EXCEPT !.accepted = @ + 1]
    /\ UNCHANGED <<wk, Others>>

SendEvent ==
    /\ obs.accepted < MaxEvents
    /\ IF sh.cancelled
       THEN \* send on a closed channel
            /\ sh' = [sh EXCEPT !.panicked = TRUE]
            /\ UNCHANGED obs
       ELSE /\ IF Len(sh.ch) < ChanCap
               THEN sh' = [sh EXCEPT !.ch = Append(@, obs.accepted + 1)]
               ELSE LET r == RingAdd(sh.ring, obs.accepted + 1)
                    IN  sh' = [sh EXCEPT !.ring = r.ring,
                                         !.dropped = IF r.ok THEN @ ELSE @ + 1]
            /\ obs' = [obs EXCEPT !.accepted = @ + 1]
    /\ UNCHANGED <<wk, Others>>

\* the clock moves while nothing else happens
ClockTick ==
    /\ sh.since < Second
    /\ sh' = Elapse(sh, 1)
    /\ UNCHANGED <<wk, obs, Others>>

\* entering shipBatch(events); cont says where its caller goes on
Ship(w, events, cont) ==
    /\ wk' = [w EXCEPT !.pc = "ship", !.events = events, !.cont = cont, !.batch = <<>>,
                       !.attempt = 0, !.posts = 0, !.result = "none", !.pooled = 0, !.d = 0]
    /\ obs' = [obs EXCEPT !.attempted = @ \cup EventsOf(events)]

\* batch = append(batch, event); if len(batch) >= s.batchSize { shipBatch }
Batched(w, event, cont, otherwise) ==
    IF Len(w.batch) + 1 >= BatchSize
    THEN Ship(w, Append(w.batch, event), cont)
    ELSE wk' = [otherwise EXCEPT !.batch = Append(w.batch, event)] /\ UNCHANGED obs

\* processEvents, case <-s.ctx.Done()
WorkerCtxDone ==
    /\ wk.pc = "select"
    /\ sh.cancelled
    /\ IF wk.batch # <<>> THEN Ship(wk, wk.batch, "exit")
       ELSE wk' = [wk EXCEPT !.pc = "exited"] /\ UNCHANGED obs
    /\ UNCHANGED <<sh, Others>>

\* processEvents, case event := <-s.eventChan; a closed and empty channel
\* yields nil
WorkerReceive ==
    /\ wk.pc = "select"
    /\ sh.ch # <<>> \/ sh.cancelled
    /\ LET event == IF sh.ch # <<>> THEN Head(sh.ch) ELSE 0
       IN  /\ Batched(wk, event, "select", wk)
           /\ sh' = [sh EXCEPT !.ch = IF @ # <<>> THEN Tail(@) ELSE @]
    /\ UNCHANGED Others

\* processBufferedEvents
ProcessBuffered(w) ==
    LET r == RingDrain(sh.ring, BatchSize)
    IN  /\ sh' = [sh EXCEPT !.ring = r.ring]
        /\ IF r.events # <<>> THEN Ship(w, r.events, "select")
           ELSE wk' = [w EXCEPT !.pc = "select"] /\ UNCHANGED obs

\* processEvents, case <-flushTicker.C
WorkerFlushTick ==
    /\ wk.pc = "select"
    /\ IF wk.batch # <<>>
       THEN Ship(wk, wk.batch, "buffered") /\ UNCHANGED sh
       ELSE ProcessBuffered(wk)
    /\ UNCHANGED Others

\* processEvents, case <-checkTicker.C
WorkerCheckTick ==
    /\ wk.pc = "select"
    /\ wk' = [wk EXCEPT !.pc = "check", !.i = 0]
    /\ UNCHANGED <<sh, obs, Others>>

\* one round of the loop under checkTicker
WorkerCheckRead ==
    /\ wk.pc = "check"
    /\ IF wk.i >= CheckReads
       THEN wk' = [wk EXCEPT !.pc = "select", !.i = 0] /\ UNCHANGED <<sh, obs>>
       ELSE IF sh.ch # <<>>
       THEN /\ Batched([wk EXCEPT !.i = @ + 1], Head(sh.ch), "check", [wk EXCEPT !.i = @ + 1])
            /\ sh' = [sh EXCEPT !.ch = Tail(@)]
       ELSE IF sh.cancelled
       THEN /\ IF wk.batch # <<>> THEN Ship(wk, wk.batch, "exit")
               ELSE wk' = [wk EXCEPT !.pc = "exited"] /\ UNCHANGED obs
            /\ UNCHANGED sh
       ELSE wk' = [wk EXCEPT !.i = @ + 1] /\ UNCHANGED <<sh, obs>>
    /\ UNCHANGED Others

\* shipBatch: waitTime := s.bucket.WaitTime(1)
ShipWaitTime ==
    /\ wk.pc = "ship"
    /\ sh' = [sh EXCEPT !.tokens = refill(Bucket(sh)).tokens,
                        !.since = refill(Bucket(sh)).since]
    /\ wk' = [wk EXCEPT !.d = WaitTime(Bucket(sh), 1),
                        !.pc = IF WaitTime(Bucket(sh), 1) > 0 THEN "ratesleep" ELSE "allow"]
    /\ UNCHANGED <<obs, Others>>

\* time.Sleep(waitTime) returns after waitTime or later
ShipSleep(late) ==
    /\ wk.pc = "ratesleep"
    /\ sh' = Elapse(sh, wk.d + late)
    /\ wk' = [wk EXCEPT !.pc = "allow"]
    /\ UNCHANGED <<obs, Others>>

\* shipBatch: if !s.bucket.Allow(1) { re-buffer; return }.  eventsToJSON
\* that follows marshals strings, a time and an int and returns no error.
ShipAllow ==
    /\ wk.pc = "allow"
    /\ LET a == Allow(Bucket(sh), 1)
           r == Rebuffer([ring |-> sh.ring, dropped |-> sh.dropped, pooled |-> 0], wk.events)
       IN  IF a.ok
           THEN /\ sh' = [sh EXCEPT !.tokens = a.b.tokens, !.since = a.b.since]
                /\ wk' = [wk EXCEPT !.pc = "send"]
           ELSE /\ sh' = [sh EXCEPT !.tokens = a.b.tokens, !.since = a.b.since,
                                    !.ring = r.ring, !.dropped = r.dropped]
                /\ wk' = [wk EXCEPT !.pc = "return", !.result = "limited",
                                    !.pooled = r.pooled]
    /\ UNCHANGED <<obs, Others>>

\* whether s.send makes a POST and whether it succeeds
Posted(resp) == resp # "unavailable" /\ ~sh.cancelled

SendOK(resp) == Posted(resp) /\ resp = "2xx"

SendOneMore(attempt) == TRUE

SendAgain(attempt) == attempt + 1 < maxRetries

\* sendWithRetry: one s.send, and what shipBatch does with the final result
ShipSend(resp) ==
    /\ wk.pc = "send"
    /\ LET posts == wk.posts + (IF Posted(resp) THEN 1 ELSE 0)
           r == Rebuffer([ring |-> sh.ring, dropped |-> sh.dropped, pooled |-> 0], wk.events)
       IN  IF SendOK(resp)
           THEN /\ sh' = [sh EXCEPT !.shipped = @ + Len(wk.events)]
                /\ wk' = [wk EXCEPT !.pc = "return", !.result = "ok", !.posts = posts,
                                    !.pooled = Len(wk.events)]
           ELSE IF SendAgain(wk.attempt)
           THEN /\ wk' = [wk EXCEPT !.pc = "backoff", !.attempt = @ + 1, !.posts = posts]
                /\ UNCHANGED sh
           ELSE /\ sh' = [sh EXCEPT !.ring = r.ring, !.dropped = r.dropped]
                /\ wk' = [wk EXCEPT !.pc = "return", !.result = "failed", !.posts = posts,
                                    !.pooled = r.pooled]
    /\ UNCHANGED <<obs, Others>>

\* sendWithRetry: time.Sleep(backoff), a second or more
ShipBackoff ==
    /\ wk.pc = "backoff"
    /\ sh' = Elapse(sh, Second)
    /\ wk' = [wk EXCEPT !.pc = "send"]
    /\ UNCHANGED <<obs, Others>>

\* flushBuffer: the next batch of the drained events, or the end of Stop
FlushNext(w, events) ==
    IF events = <<>>
    THEN wk' = [w EXCEPT !.pc = "exited", !.stop = "nil", !.rest = <<>>] /\ UNCHANGED obs
    ELSE Ship([w EXCEPT !.rest = SubSeq(events, Min(Len(events), BatchSize) + 1, Len(events))],
              SubSeq(events, 1, Min(Len(events), BatchSize)), "flush")

\* shipBatch returns to its caller
ShipReturn ==
    /\ wk.pc = "return"
    /\ LET w == [wk EXCEPT !.events = <<>>, !.result = "none", !.posts = 0, !.attempt = 0,
                           !.pooled = 0, !.cont = "none"]
       IN  CASE wk.cont = "select"   -> wk' = [w EXCEPT !.pc = "select"] /\ UNCHANGED <<sh, obs>>
             [] wk.cont = "check"    -> wk' = [w EXCEPT !.pc = "check"] /\ UNCHANGED <<sh, obs>>
             [] wk.cont = "exit"     -> wk' = [w EXCEPT !.pc = "exited"] /\ UNCHANGED <<sh, obs>>
             [] wk.cont = "buffered" -> ProcessBuffered(w)
             [] wk.cont = "flush"    -> FlushNext(w, wk.rest) /\ UNCHANGED sh
    /\ UNCHANGED Others

\* LogShipper.Stop: s.cancel(); close(s.eventChan)
StopCall ==
    /\ wk.stop = "none"
    /\ sh' = [sh EXCEPT !.cancelled = TRUE]
    /\ wk' = [wk EXCEPT !.stop = "waiting"]
    /\ UNCHANGED <<obs, Others>>

\* Stop, case <-done: s.flushBuffer(), run by the caller of Stop
StopFlush ==
    /\ wk.stop = "waiting"
    /\ wk.pc = "exited"
    /\ sh' = [sh EXCEPT !.ring = <<>>]
    /\ FlushNext(wk, sh.ring)
    /\ UNCHANGED Others

\* Stop, case <-time.After(5 * time.Second): the worker has not returned
StopTimeout ==
    /\ wk.stop = "waiting"
    /\ wk.pc # "exited"
    /\ wk' = [wk EXCEPT !.stop = "timeout"]
    /\ UNCHANGED <<sh, obs, Others>>

NextShipper ==
    \/ SendEvent
    \/ ClockTick
    \/ WorkerCtxDone
    \/ WorkerReceive
    \/ WorkerFlushTick
    \/ WorkerCheckTick
    \/ WorkerCheckRead
    \/ ShipWaitTime
    \/ \E late \in {0, 1} : ShipSleep(late)
    \/ ShipAllow
    \/ \E resp \in SendResponses : ShipSend(resp)
    \/ ShipBackoff
    \/ ShipReturn
    \/ StopCall
    \/ StopFlush
    \/ StopTimeout

---------------------------------------------------------------------------
(* SpecRefresh: TokenManager's token expiry and StartRefreshLoop's timer.  *)
(* Times are kept in seconds relative to the clock: untilExpiry is         *)
(* time.Until(tm.tokenExpiry), untilTimer the time until refreshTimer      *)
(* fires.  A refresh attempt is made when the timer fires.  How long ago   *)
(* the token expired is kept up to MaxLate seconds.                        *)

MaxLate == 10

ThirtySeconds == 30

\* expires_in of a successful bootstrap response
Lifetimes == {-5, 0, 20, 30, 40, 60}

\* what a successful bootstrap response stores besides the expiry
Credentials ==
    {[currentToken |-> "access", configURL |-> "cfg", logsURL |-> "logs"],
     [currentToken |-> "access2", configURL |-> "cfg2", logsURL |-> ""]}

NoCredentials == [currentToken |-> "", configURL |-> "", logsURL |-> ""]

\* what a refresh may be answered
RefreshResponses ==
    {[status |-> "200", ExpiresIn |-> l, stored |-> c] : l \in Lifetimes, c \in Credentials}
    \cup {[status |-> st, ExpiresIn |-> 0, stored |-> NoCredentials] :
             st \in {"403", "410", "neterr"}}

\* calculateRefreshInterval without its minimum
calculateRefreshInterval_NoMin(timeUntilExpiry) == (timeUntilExpiry * 4) \div 5

\* calculateRefreshInterval for time.Until(expiry) = timeUntilExpiry
calculateRefreshInterval(timeUntilExpiry) ==
    IF (timeUntilExpiry * 4) \div 5 < ThirtySeconds THEN ThirtySeconds
    ELSE (timeUntilExpiry * 4) \div 5

NoAttempt == [made |-> FALSE, untilExpiry |-> 0, first |-> FALSE]

InitRefreshIdle ==
    rf = [pc |-> "boot", untilExpiry |-> 0, untilTimer |-> 0,
          stored |-> NoCredentials,
          deploymentDeleted |-> FALSE, fresh |-> FALSE, last |-> NoAttempt]

RefreshOthers == <<trieVars, matVars, mgrVars, updVars, dx, shipVars, auxVars>>

\* TokenManager.Initialize with a successful response
RefreshBootstrap(expiresIn) ==
    /\ rf.pc = "boot"
    /\ rf' = [rf EXCEPT !.pc = "starting", !.untilExpiry = expiresIn, !.fresh = TRUE,
                        !.stored = [currentToken |-> "access", configURL |-> "cfg",
                                    logsURL |-> "logs"]]
    /\ UNCHANGED RefreshOthers

\* StartRefreshLoop: refreshTimer := time.NewTimer(tm.calculateRefreshInterval())
StartRefreshLoop ==
    /\ rf.pc = "starting"
    /\ rf' = [rf EXCEPT !.pc = "loop",
                        !.untilTimer = calculateRefreshInterval(rf.untilExpiry)]
    /\ UNCHANGED RefreshOthers

\* a second passes: while Initialize's caller fetches the configuration and
\* the list, or while the loop waits for its timer
RefreshClock ==
    /\ rf.pc \in {"starting", "loop"}
    /\ rf.pc = "starting" => rf.untilExpiry > -MaxLate
    /\ rf.pc = "loop" => rf.untilTimer > 0
    /\ rf' = [rf EXCEPT !.untilExpiry = IF @ > -MaxLate THEN @ - 1 ELSE @,
                        !.untilTimer = IF rf.pc = "loop" THEN @ - 1 ELSE @,
                        !.last = NoAttempt]
    /\ UNCHANGED RefreshOthers

\* StartRefreshLoop, case <-refreshTimer.C: tm.refresh and the timer's reset
RefreshFire(resp) ==
    /\ rf.pc = "loop"
    /\ rf.untilTimer = 0
    /\ IF rf.deploymentDeleted
       THEN rf' = [rf EXCEPT !.pc = "stopped", !.last = NoAttempt]
       ELSE LET attempt == [made |-> TRUE, untilExpiry |-> rf.untilExpiry,
                            first |-> rf.fresh]
            IN  IF resp.status = "200"
                THEN rf' = [rf EXCEPT
                              !.untilExpiry = resp.ExpiresIn,
                              !.stored = resp.stored,
                              !.untilTimer = calculateRefreshInterval(resp.ExpiresIn),
                              !.fresh = TRUE, !.last = attempt]
                ELSE rf' = [rf EXCEPT
                              !.deploymentDeleted = @ \/ resp.status = "410",
                              !.untilTimer = ThirtySeconds,
                              !.fresh = FALSE, !.last = attempt]
    /\ UNCHANGED RefreshOthers

\* StartRefreshLoop, case <-ctx.Done() or <-tm.stopCh
RefreshStop ==
    /\ rf.pc = "loop"
    /\ rf' = [rf EXCEPT !.pc = "stopped", !.last = NoAttempt]
    /\ UNCHANGED RefreshOthers

NextRefresh ==
    \/ \E expiresIn \in Lifetimes : RefreshBootstrap(expiresIn)
    \/ StartRefreshLoop
    \/ RefreshClock
    \/ \E resp \in RefreshResponses : RefreshFire(resp)
    \/ RefreshStop

---------------------------------------------------------------------------
(* SpecLoop: EDLUpdater.StartUpdateLoop and Reconfigure.  The loop reads   *)
(* updateFrequency under the read lock, creates a ticker for it and        *)
(* selects on the ticker, reconfigureCh and the stop signals; Reconfigure  *)
(* holds the write lock from its stores to its signal.                     *)

MaxReconfigure == 3

ReconfigureCap == 1

\* update frequencies
Freqs == {60, 120, 300}

\* a send that never reaches the channel
NonBlockingSend_Lost(ch) == ch

\* select { case u.reconfigureCh <- struct{}{}: default: }
NonBlockingSend(ch) == IF ch < ReconfigureCap THEN ch + 1 ELSE ch

InitLoopIdle ==
    lp = [updateFrequency |-> 60, reconfigureCh |-> 0, locked |-> FALSE,
          pc |-> "new", freq |-> 0, ticker |-> 0, calls |-> 0, spawned |-> 0]

LoopOthers == <<trieVars, matVars, mgrVars, updVars, dx, shipVars, rf, rw, cc, rb, sw>>

\* go StartUpdateLoop
LoopStart ==
    /\ lp.pc = "new"
    /\ lp' = [lp EXCEPT !.pc = "read"]
    /\ UNCHANGED LoopOthers

\* StartUpdateLoop, lines 317-319: freq := u.updateFrequency under RLock
LoopReadFreq ==
    /\ lp.pc = "read"
    /\ ~lp.locked
    /\ lp' = [lp EXCEPT !.pc = "make", !.freq = lp.updateFrequency]
    /\ UNCHANGED LoopOthers

\* StartUpdateLoop, line 321: ticker := time.NewTicker(freq)
LoopNewTicker ==
    /\ lp.pc = "make"
    /\ lp' = [lp EXCEPT !.pc = "select", !.ticker = lp.freq]
    /\ UNCHANGED LoopOthers

\* StartUpdateLoop, case <-ticker.C: updateNow begins
LoopTick ==
    /\ lp.pc = "select"
    /\ lp' = [lp EXCEPT !.pc = "updating"]
    /\ UNCHANGED LoopOthers

\* updateNow of the tick has returned
LoopUpdated ==
    /\ lp.pc = "updating"
    /\ lp' = [lp EXCEPT !.pc = "select"]
    /\ UNCHANGED LoopOthers

\* StartUpdateLoop, case <-u.reconfigureCh: ticker.Stop(), running = false
LoopReconfigured ==
    /\ lp.pc = "select"
    /\ lp.reconfigureCh > 0
    /\ lp' = [lp EXCEPT !.pc = "read", !.reconfigureCh = @ - 1, !.ticker = 0]
    /\ UNCHANGED LoopOthers

\* StartUpdateLoop, case <-ctx.Done() or <-u.stopCh: ticker.Stop(), return
LoopStop ==
    /\ lp.pc = "select"
    /\ lp' = [lp EXCEPT !.pc = "stopped", !.ticker = 0]
    /\ UNCHANGED LoopOthers

\* Reconfigure, lines 459-464: Lock, u.url and u.updateFrequency stored
ReconfigureStore(updateFrequency) ==
    /\ ~lp.locked
    /\ lp.calls < MaxReconfigure
    /\ lp' = [lp EXCEPT !.locked = TRUE, !.updateFrequency = updateFrequency,
                        !.calls = @ + 1]
    /\ UNCHANGED LoopOthers

\* Reconfigure, lines 466-480: the signal, go updateNow, Unlock
ReconfigureSignal ==
    /\ lp.locked
    /\ lp' = [lp EXCEPT !.locked = FALSE,
                        !.reconfigureCh = NonBlockingSend(@),
                        !.spawned = @ + 1]
    /\ UNCHANGED LoopOthers

\* the updateNow that Reconfigure started has returned
ReconfigureUpdated ==
    /\ lp.spawned > 0
    /\ lp' = [lp EXCEPT !.spawned = @ - 1]
    /\ UNCHANGED LoopOthers

NextLoop ==
    \/ LoopStart
    \/ LoopReadFreq
    \/ LoopNewTicker
    \/ LoopTick
    \/ LoopUpdated
    \/ LoopReconfigured
    \/ LoopStop
    \/ \E f \in Freqs : ReconfigureStore(f)
    \/ ReconfigureSignal
    \/ ReconfigureUpdated

---------------------------------------------------------------------------
(* SpecCheck: CheckConfigUpdates called on a manager in any of the states  *)
(* Initialize, the supervisor and earlier checks leave it in.              *)

\* the manager's fields when CheckConfigUpdates is called: the EDL fields
\* are unset, or hold a mode, a URL and a positive frequency
ManagersAtCheck ==
    {[deploymentEnabled |-> e, temporarilyDisabled |-> t, edlMode |-> "",
      edlURL |-> "", edlUpdateFreq |-> 0, edlUpdater |-> FALSE, logShipper |-> FALSE] :
        e \in BOOLEAN, t \in BOOLEAN}
    \cup {[deploymentEnabled |-> e, temporarilyDisabled |-> t, edlMode |-> md,
           edlURL |-> url, edlUpdateFreq |-> f, edlUpdater |-> up, logShipper |-> FALSE] :
             e \in BOOLEAN, t \in BOOLEAN, md \in {"allowlist", "blocklist"},
             url \in {"u1", "u2"}, f \in {60, FiveMinutes}, up \in BOOLEAN}

IdleCheck ==
    [pc |-> "idle", m |-> CHOOSE mgr \in ManagersAtCheck : TRUE, configURL |-> "",
     resp |-> [status |-> "neterr", config |-> NoConfig],
     after |-> CHOOSE mgr \in ManagersAtCheck : TRUE, fetched |-> FALSE,
     reconfigure |-> FALSE]

InitCheckIdle == cc = IdleCheck

CheckOthers == <<trieVars, matVars, mgrVars, updVars, dx, shipVars, rf, rw, lp, rb, sw>>

\* refresh calls manager.CheckConfigUpdates; resp is what the control
\* plane will answer if asked
CheckCalled(mgr, configURL, resp) ==
    /\ cc.pc = "idle"
    /\ cc' = [IdleCheck EXCEPT !.pc = "called", !.m = mgr, !.configURL = configURL,
                               !.resp = resp, !.after = mgr]
    /\ UNCHANGED CheckOthers

\* CheckConfigUpdates runs and returns
CheckReturned ==
    /\ cc.pc = "called"
    /\ LET t == [currentToken |-> "access", configURL |-> cc.configURL,
                 logsURL |-> "", deploymentDeleted |-> FALSE]
           r == ConfigCheck(cc.m, Enabled("manager", cc.m), ConfigErr(t, cc.resp),
                            cc.resp.config)
       IN  cc' = [cc EXCEPT !.pc = "returned", !.after = r.m, !.fetched = r.fetched,
                           !.reconfigure = r.reconfigure]
    /\ UNCHANGED CheckOthers

\* the next refresh
CheckForgotten ==
    /\ cc.pc = "returned"
    /\ cc' = IdleCheck
    /\ UNCHANGED CheckOthers

NextCheck ==
    \/ \E mgr \in ManagersAtCheck, configURL \in {"", "cfg"}, resp \in ConfigResponses :
          CheckCalled(mgr, configURL, resp)
    \/ CheckReturned
    \/ CheckForgotten

---------------------------------------------------------------------------
(* SpecServe: one run of ServeHTTP against its http.ResponseWriter, with   *)
(* panics.  The response is its status (0 while no header has been sent)   *)
(* and the chunks written to its body.                                     *)

NoResponse == [status |-> 0, body |-> <<>>]

\* http.ResponseWriter.WriteHeader: a second call changes nothing
WriteHeader(r, code) == IF r.status # 0 THEN r ELSE [r EXCEPT !.status = code]

\* http.ResponseWriter.Write: sends the header with 200 if none was sent
Write(r, chunk) == [WriteHeader(r, 200) EXCEPT !.body = Append(@, chunk)]

\* http.Error(w, msg, code)
HttpError(r, msg, code) == Write(WriteHeader(r, code), msg)

\* ServeBlockPage
ServeBlockPage(r) == Write(WriteHeader(r, 403), "blockPageHTML")

\* the deferred recover() of ServeHTTP
Recover(r) == HttpError(r, "Internal Server Error", 500)

IdleServe ==
    [pc |-> "idle", clientIP |-> <<>>, resp |-> NoResponse]

InitServeIdle == rw = IdleServe

ServeOthers == <<trieVars, matVars, mgrVars, updVars, dx, shipVars, rf, lp, cc, rb, sw>>

\* the answers of the IP check
CheckResults == [allowed : BOOLEAN, err : {"nil", "invalid IP"}]

\* ServeHTTP up to the point where it hands the request on or answers it;
\* early: the middleware panics before that
ServeBegin(managerNil, enabled, clientIP, res, early) ==
    /\ rw.pc = "idle"
    /\ LET fx == Dispatch(managerNil, enabled, clientIP, res)
       IN  rw' = [pc |-> IF early THEN "panicking"
                         ELSE IF fx.nextCalls = 1 THEN "next"
                         ELSE IF fx.events = 1 THEN "block" ELSE "bad",
                  clientIP |-> clientIP, resp |-> NoResponse]
    /\ UNCHANGED ServeOthers

\* e.next.ServeHTTP(rw, req): the next handler sends a header, writes a
\* body, both or neither, and returns or panics
NextHandler(code, sendsHeader, writesBody, panics) ==
    /\ rw.pc = "next"
    /\ LET r1 == IF sendsHeader THEN WriteHeader(rw.resp, code) ELSE rw.resp
           r2 == IF writesBody THEN Write(r1, "body") ELSE r1
       IN  rw' = [rw EXCEPT !.resp = r2,
                            !.pc = IF panics THEN "panicking" ELSE "returned"]
    /\ UNCHANGED ServeOthers

\* http.Error(rw, ..., http.StatusBadRequest); return
AnswerBadRequest ==
    /\ rw.pc = "bad"
    /\ rw' = [rw EXCEPT !.resp = HttpError(@, "bad request", 400), !.pc = "returned"]
    /\ UNCHANGED ServeOthers

\* ServeBlockPage(rw)
AnswerBlocked ==
    /\ rw.pc = "block"
    /\ rw' = [rw EXCEPT !.resp = ServeBlockPage(@), !.pc = "event"]
    /\ UNCHANGED ServeOthers

\* NewBlockEvent and manager.SendBlockEvent; SendEvent panics when Stop
\* has closed the channel
BlockEventSent(panics) ==
    /\ rw.pc = "event"
    /\ rw' = [rw EXCEPT !.pc = IF panics THEN "panicking" ELSE "returned"]
    /\ UNCHANGED ServeOthers

\* the deferred function runs on a panic
Recovered ==
    /\ rw.pc = "panicking"
    /\ rw' = [rw EXCEPT !.resp = Recover(@), !.pc = "recovered"]
    /\ UNCHANGED ServeOthers

\* ServeHTTP has returned
ServeEnd ==
    /\ rw.pc \in {"returned", "recovered"}
    /\ rw' = IdleServe
    /\ UNCHANGED ServeOthers

NextServe ==
    \/ \E managerNil \in BOOLEAN, enabled \in BOOLEAN, clientIP \in ClientIPs,
          res \in CheckResults, early \in BOOLEAN :
            ServeBegin(managerNil, enabled, clientIP, res, early)
    \/ \E code \in {200, 404, 502}, sendsHeader \in BOOLEAN, writesBody \in BOOLEAN,
          panics \in BOOLEAN : NextHandler(code, sendsHeader, writesBody, panics)
    \/ AnswerBadRequest
    \/ AnswerBlocked
    \/ \E panics \in BOOLEAN : BlockEventSent(panics)
    \/ Recovered
    \/ ServeEnd

---------------------------------------------------------------------------
(* The specifications.                                                     *)

NextTrie ==
    \/ \E p \in Prefixes : TrieInsert(p)
    \/ TrieContainsAll
    \/ \E omitEmpty \in BOOLEAN,
          how \in {"none", "magic", "version", "short", "both", "magicCut", "versionCut",
                   "badRoot", "badChild"} :
          TrieLoad(omitEmpty, how)

\* ---------------------------------------------------------------------
\* pkg/logs RingBuffer, field by field (SpecRing).  Events are numbered in
\* the order of their Add; a nil cell is 0; Go index i is cell i + 1.

MaxCapacity == 3

MaxAdds == 5

IdleRing ==
    [capacity |-> 0, buffer |-> <<>>, head |-> 0, tail |-> 0, size |-> 0,
     op |-> "none", n |-> 0, ret |-> <<>>,
     added |-> 0, lastReturned |-> 0, sinceEmptied |-> 0, drained |-> 0]

InitRingIdle == rb = IdleRing

RingOthers == <<trieVars, matVars, mgrVars, updVars, dx, shipVars, rf, rw, lp, cc, sw>>

\* NewRingBuffer(capacity)
NewRingBuffer(capacity) ==
    /\ rb.capacity = 0
    /\ rb' = [rb EXCEPT !.capacity = capacity, !.buffer = [i \in 1..capacity |-> 0],
                        !.op = "New"]
    /\ UNCHANGED RingOthers

Add_KeepHead(b, event) ==
    IF b.size >= b.capacity
    THEN [b EXCEPT !.buffer[b.tail + 1] = event, !.tail = (b.tail + 1) % b.capacity]
    ELSE [b EXCEPT !.buffer[b.tail + 1] = event, !.tail = (b.tail + 1) % b.capacity,
                   !.size = @ + 1]

\* RingBuffer.Add(event) on the fields; it returns true on both paths
Add(b, event) ==
    IF b.size >= b.capacity
    THEN [b EXCEPT !.buffer[b.tail + 1] = event, !.tail = (b.tail + 1) % b.capacity,
                   !.head = (b.head + 1) % b.capacity]
    ELSE [b EXCEPT !.buffer[b.tail + 1] = event, !.tail = (b.tail + 1) % b.capacity,
                   !.size = @ + 1]

\* the loop of Drain: "events[i] = rb.buffer[rb.head]; rb.buffer[rb.head] =
\* nil; rb.head = (rb.head + 1) % rb.capacity; rb.size--", count - i times more
RECURSIVE DrainLoop(_, _, _)
DrainLoop(b, events, left) ==
    IF left <= 0 THEN [b |-> b, events |-> events]
    ELSE DrainLoop([b EXCEPT !.buffer[b.head + 1] = 0, !.head = (b.head + 1) % b.capacity,
                             !.size = @ - 1],
                   Append(events, b.buffer[b.head + 1]), left - 1)

\* RingBuffer.Drain(n)
Drain(b, n) ==
    IF b.size = 0 THEN [b |-> b, events |-> <<>>]
    ELSE DrainLoop(b, <<>>, Min(n, b.size))

\* RingBuffer.DrainAll(): the same loop over rb.size events, with the size
\* set to 0 at the end
DrainAll(b) ==
    IF b.size = 0 THEN [b |-> b, events |-> <<>>]
    ELSE LET r == DrainLoop(b, <<>>, b.size)
         IN  [b |-> [r.b EXCEPT !.size = 0], events |-> r.events]

\* the history kept beside the fields: the newest event a drain returned,
\* and the adds and the drained events since the buffer was last empty
Returned(b, events) ==
    [b EXCEPT !.ret = events,
              !.lastReturned = IF events = <<>> THEN @ ELSE events[Len(events)],
              !.sinceEmptied = IF b.size = 0 THEN 0 ELSE @,
              !.drained = IF b.size = 0 THEN 0 ELSE @ + Len(events)]

RbAdd ==
    /\ rb.capacity > 0 /\ rb.added < MaxAdds
    /\ rb' = [Add(rb, rb.added + 1) EXCEPT !.op = "Add", !.n = 0, !.ret = <<>>,
                !.added = @ + 1, !.sinceEmptied = @ + 1]
    /\ UNCHANGED RingOthers

RbDrain(n) ==
    /\ rb.capacity > 0
    /\ rb' = [Returned(Drain(rb, n).b, Drain(rb, n).events) EXCEPT !.op = "Drain", !.n = n]
    /\ UNCHANGED RingOthers

RbDrainAll ==
    /\ rb.capacity > 0
    /\ rb' = [Returned(DrainAll(rb).b, DrainAll(rb).events) EXCEPT !.op = "DrainAll", !.n = 0]
    /\ UNCHANGED RingOthers

NextRing ==
    \/ \E capacity \in 1..MaxCapacity : NewRingBuffer(capacity)
    \/ RbAdd
    \/ \E n \in 0..(MaxCapacity + 1) : RbDrain(n)
    \/ RbDrainAll


\* ---------------------------------------------------------------------
\* SpecSwitch: an initialized manager whose configuration is re-checked
\* while the update loop and the goroutines started by Reconfigure fetch.
\* An updateNow is two steps: its fetch builds the request from u.url, and
\* later matcher.Update publishes the trie of that URL.

MaxSpawned == 1

NoDecision == [handled |-> FALSE, enabled |-> FALSE, mode |-> "", src |-> ""]

IdleSwitch ==
    [pc |-> "idle",
     m |-> [deploymentEnabled |-> FALSE, temporarilyDisabled |-> FALSE, edlMode |-> "",
            edlURL |-> "", edlUpdateFreq |-> 0, edlUpdater |-> FALSE,
            logShipper |-> FALSE],
     url |-> "", src |-> "new", loop |-> "", pending |-> 0, fetching |-> <<>>,
     configs |-> {}, reconfigured |-> FALSE, allOK |-> TRUE, req |-> NoDecision]

InitSwitchIdle == sw = IdleSwitch

SwitchOthers == <<trieVars, matVars, mgrVars, updVars, dx, shipVars, rf, rw, lp, cc, rb>>

\* no updateNow is running or about to run
NothingInFlight == sw.loop = "" /\ sw.pending = 0 /\ sw.fetching = <<>>

\* Initialize went through: config c stored, the updater's Start loaded
\* the list of its URL, the loops run
SwitchInitialized(c) ==
    /\ sw.pc = "idle"
    /\ HasURL(c)
    /\ sw' = [sw EXCEPT !.pc = "run",
                !.m = [@ EXCEPT !.deploymentEnabled = TRUE,
                                !.edlMode = ModeOfPurpose(c.purpose),
                                !.edlURL = c.combined[1],
                                !.edlUpdateFreq = FreqOfConfig(c),
                                !.edlUpdater = TRUE],
                !.url = c.combined[1], !.src = c.combined[1],
                !.configs = {<<c.combined[1], ModeOfPurpose(c.purpose)>>}]
    /\ UNCHANGED SwitchOthers

\* CheckConfigUpdates with the answer resp; Reconfigure stores the URL and
\* starts "go updateNow"
SwitchCheck(resp) ==
    /\ sw.pc = "run"
    /\ sw.pending + Len(sw.fetching) < MaxSpawned
    /\ LET err == IF resp.status = "200" THEN "nil" ELSE resp.status
           r   == ConfigCheck(sw.m, Enabled("manager", sw.m), err, resp.config)
       IN  sw' = [sw EXCEPT !.m = r.m,
                     !.configs = @ \cup {<<r.m.edlURL, r.m.edlMode>>},
                     !.url = IF r.reconfigure THEN r.m.edlURL ELSE @,
                     !.pending = IF r.reconfigure THEN @ + 1 ELSE @,
                     !.reconfigured = @ \/ r.reconfigure,
                     !.allOK = @ \/ r.reconfigure,
                     !.req = NoDecision]
    /\ UNCHANGED SwitchOthers

\* StartUpdateLoop, case <-ticker.C: updateNow starts to fetch u.url
SwitchLoopFetch ==
    /\ sw.pc = "run" /\ sw.loop = ""
    /\ sw' = [sw EXCEPT !.loop = sw.url, !.req = NoDecision]
    /\ UNCHANGED SwitchOthers

\* the updateNow of the loop ends: matcher.Update, or an error
SwitchLoopUpdated(ok) ==
    /\ sw.loop # ""
    /\ sw' = [sw EXCEPT !.loop = "", !.src = IF ok THEN sw.loop ELSE @,
                        !.allOK = @ /\ ok, !.req = NoDecision]
    /\ UNCHANGED SwitchOthers

\* the goroutine of Reconfigure starts to fetch u.url
SwitchSpawnedFetch ==
    /\ sw.pending > 0
    /\ sw' = [sw EXCEPT !.pending = @ - 1, !.fetching = Append(@, sw.url),
                        !.req = NoDecision]
    /\ UNCHANGED SwitchOthers

\* the updateNow of such a goroutine ends
SwitchSpawnedUpdated(i, ok) ==
    /\ i \in 1..Len(sw.fetching)
    /\ sw' = [sw EXCEPT !.fetching = SubSeq(@, 1, i - 1) \o SubSeq(@, i + 1, Len(@)),
                        !.src = IF ok THEN sw.fetching[i] ELSE @,
                        !.allOK = @ /\ ok, !.req = NoDecision]
    /\ UNCHANGED SwitchOthers

\* IsIPAllowed reads the matcher and then the mode
SwitchServe ==
    /\ sw.pc = "run"
    /\ sw' = [sw EXCEPT !.req = [handled |-> TRUE, enabled |-> Enabled("manager", sw.m),
                                 mode |-> sw.m.edlMode, src |-> sw.src]]
    /\ UNCHANGED SwitchOthers

NextSwitch ==
    \/ \E c \in Configs : SwitchInitialized(c)
    \/ \E resp \in ConfigResponses : SwitchCheck(resp)
    \/ SwitchLoopFetch
    \/ \E ok \in BOOLEAN : SwitchLoopUpdated(ok)
    \/ SwitchSpawnedFetch
    \/ \E i \in 1..MaxSpawned, ok \in BOOLEAN : SwitchSpawnedUpdated(i, ok)
    \/ SwitchServe


Init == InitMgrIdle /\ InitMatIdle /\ InitTrieIdle /\ InitUpdIdle /\ InitExtractIdle
        /\ InitShipIdle /\ InitRefreshIdle /\ InitServeIdle /\ InitLoopIdle
        /\ InitCheckIdle /\ InitRingIdle /\ InitSwitchIdle

Next == NextMgr

Spec == Init /\ [][Next]_vars

\* SpecOnce: NCallers middleware instances are built concurrently
NextOnce ==
    \/ \E c \in Callers, token \in Tokens : InitializeCall(c, token)
    \/ \E c \in Callers : InitializeReturn(c)
    \/ \E resp \in BootstrapResponses : InitBootstrap(resp)
    \/ \E resp \in ConfigResponses : InitFetchConfig(resp)
    \/ \E out \in FetchOutcomes : InitStartUpdater(out)

SpecOnce == Init /\ [][NextOnce]_vars

SpecMatcher == Init /\ [][NextMatcher]_vars

SpecTrie == Init /\ [][NextTrie]_vars

SpecUpdater == Init /\ [][NextUpdater]_vars

SpecExtract == Init /\ [][NextExtract]_vars

SpecShipper == Init /\ [][NextShipper]_vars

SpecRefresh == Init /\ [][NextRefresh]_vars

SpecServe == Init /\ [][NextServe]_vars

SpecCheck == Init /\ [][NextCheck]_vars

SpecRing == Init /\ [][NextRing]_vars

SpecSwitch == Init /\ [][NextSwitch]_vars

\* the loop's goroutine and the Reconfigure caller are scheduled; select
\* chooses at random among its ready cases, so a signal that stays in
\* reconfigureCh is received at some iteration
SpecLoop ==
    /\ Init /\ [][NextLoop]_vars
    /\ WF_vars(LoopReadFreq) /\ WF_vars(LoopNewTicker) /\ WF_vars(LoopUpdated)
    /\ WF_vars(ReconfigureSignal)
    /\ SF_vars(LoopReconfigured)

---------------------------------------------------------------------------
(* Properties.                                                             *)

\* the request of the last step carried a syntactically valid client IP
ValidRequest == lastReq.handled /\ ParseAddr(lastReq.clientIP).ok

\* the address a valid request carried
RequestAddr ==
    LET parsed == ParseAddr(lastReq.clientIP)
    IN  [is4 |-> parsed.is4, val |-> parsed.val]

\* what the decision table asks for: allow when not enabled; blocklist:
\* allowed iff not in the list; otherwise: allowed iff in the list
Expected(inList) ==
    IF ~IsDeploymentEnabled THEN TRUE
    ELSE IF m.edlMode = "blocklist" THEN ~inList
    ELSE inList

\* C1: in every manager state and for every valid address a, IsIPAllowed(a)
\* (and its instrumented twin) returns no error and allowed = TRUE when the
\* deployment is not enabled, else (mode = blocklist) XOR the list holds a;
\* a request with a valid IP goes to the next handler iff it is allowed.
C1_Decision ==
    /\ \A a \in Addrs :
          LET want == [allowed |-> Expected(Contains(matcher.trie, a)), err |-> "nil"]
          IN  /\ IsIPAllowed(FormatAddr(a)) = want
              /\ IsIPAllowedWithStats(FormatAddr(a)) = want
    /\ ValidRequest =>
          (lastReq.outcome = "next") = Expected(Contains(matcher.trie, RequestAddr))

\* a listed address was refused in blocklist mode on the plain path
C1_Witness ==
    /\ ValidRequest
    /\ ~lastReq.debug
    /\ IsDeploymentEnabled
    /\ m.edlMode = "blocklist"
    /\ Contains(matcher.trie, RequestAddr)
    /\ lastReq.outcome = "403"

\* C2: when the deployment is enabled and the client IP text is not a
\* valid IP address, the request is answered 400, the next handler is not
\* called and no block event is enqueued, in either mode and at any log
\* level.
C2_InvalidIPRejected ==
    (lastReq.handled /\ IsDeploymentEnabled /\ ~ParseAddr(lastReq.clientIP).ok)
        => (lastReq.outcome = "400" /\ ~lastReq.blockEvent)

\* C3: fail-open: a request with a valid client IP is refused only if a
\* mode that was fetched and a trie that was fetched refuse it.
C3_FailOpen ==
    (ValidRequest /\ lastReq.outcome = "403")
        => (m.edlMode # "" /\ matcher.src # "new")

\* C4: once any control-plane response was 410, IsDeploymentEnabled() is
\* false and every request goes to the next handler.
C4_DeletedIsTerminal ==
    seen.got410 =>
        (~IsDeploymentEnabled /\ (lastReq.handled => lastReq.outcome = "next"))

\* C5: whenever the manager is temporarily disabled, a retry supervisor is
\* running.
C5_SupervisorRunning == m.temporarilyDisabled => rt.supervisors > 0

\* C6: when the bootstrap call of Initialize was answered 410 or 403,
\* Initialize returns no error and the manager lets all traffic through.
C6_BootstrapDegraded ==
    (init.once = "done" /\ init.bootstrapErr \in {"403", "410"})
        => (init.initErr = "nil" /\ ~IsDeploymentEnabled)

ConfigError(token) ==
    IF token = <<>> THEN TRUE
    ELSE IF Len(token) # 3 THEN TRUE
    ELSE \/ ~token[2].b64
         \/ ~token[2].json
         \/ token[2].component_type # "ellio_traefik_middleware_plugin"
         \/ token[2].iss = ""

\* C8: with a bootstrap token that is empty, not of three segments, not
\* decodable, not JSON, of another component_type or without iss,
\* Initialize returns an error, no request reaches the control plane and
\* no supervisor, refresh loop, update loop or shipper is started.
C8_ConfigErrors ==
    (init.runs > 0 /\ ConfigError(init.token)) =>
        /\ init.once = "done"
        /\ init.initErr # "nil"
        /\ ~seen.cpCalled
        /\ seen.initBootstraps = 0
        /\ rt.supervisors = 0
        /\ ~rt.refreshLoop
        /\ rt.updateLoops = 0
        /\ ~m.logShipper
        /\ ~HandlerBuilt

\* Initialize returned the component_type error
C8_Witness ==
    /\ callers[FirstCaller].pc = "returned"
    /\ callers[FirstCaller].ret = "invalid component_type in JWT"
    /\ Len(init.token) = 3

\* the bundles Update can publish, and the one New publishes
Bundles == {[trie |-> <<l.trie>>, count |-> l.count] : l \in UpdateInputs \cup {ListNone}}

\* C9: a read loads one pointer, which was current during the call and
\* names a complete bundle; what the read returns is that bundle's answer;
\* a text that is not an IP address yields false.
C9_AtomicSwap ==
    \A r \in Readers :
        LET rd == readers[r]
        IN  /\ rd.pc = "loaded" => (rd.ptr \in rd.window /\ heap[rd.ptr] \in Bundles)
            /\ (rd.pc = "done" /\ rd.ptr = 0) =>
                  (rd.call.kind = "Contains" /\ ~ParseAddr(rd.call.text).ok
                      /\ rd.res = BoolResult(FALSE))
            /\ (rd.pc = "done" /\ rd.ptr # 0) =>
                  /\ rd.ptr \in rd.window
                  /\ heap[rd.ptr] \in Bundles
                  /\ rd.res = IF rd.call.kind = "Count"
                              THEN CountResult(heap[rd.ptr].count)
                              ELSE BoolResult(Contains(heap[rd.ptr].trie[1], rd.addr))

\* a lookup returned the answer of a bundle published while it ran
C9_Witness ==
    \E r \in Readers :
        /\ readers[r].pc = "done"
        /\ readers[r].call.kind = "Contains"
        /\ readers[r].ptr > 1
        /\ Cardinality(readers[r].window) > 1
        /\ readers[r].res = BoolResult(TRUE)

\* prefix p covers address a: same family, same leading p.bits bits
Covers(p, a) ==
    /\ p.is4 = a.is4
    /\ a.val \div Pow2(Width(p.is4) - p.bits) = p.addr \div Pow2(Width(p.is4) - p.bits)

\* C10: after any inserts, Contains(a) is true iff an inserted prefix of
\* a's family covers a; a /0 matches its whole family and nothing of the
\* other; a full-length prefix alone in its family matches its address only.
C10_ContainsIffCovered ==
    answers.asked =>
        /\ \A a \in Addrs : (a \in answers.yes) <=> (\E p \in inserted : Covers(p, a))
        /\ \A p \in inserted :
              /\ p.bits = 0 =>
                    /\ {a \in Addrs : a.is4 = p.is4} \subseteq answers.yes
                    /\ (\A q \in inserted : q.is4 = p.is4) =>
                          answers.yes = {a \in Addrs : a.is4 = p.is4}
              /\ (p.bits = Width(p.is4) /\ inserted = {p}) =>
                    answers.yes = {[is4 |-> p.is4, val |-> p.addr]}

\* two overlapping prefixes of one family were inserted, some address of
\* that family is outside both
C10_Witness ==
    /\ answers.asked
    /\ \E p, q \in inserted :
          /\ p.is4 = q.is4
          /\ 0 < p.bits
          /\ p.bits < q.bits
          /\ Covers(p, [is4 |-> q.is4, val |-> q.addr])
          /\ \E a \in Addrs : a.is4 = p.is4 /\ a \notin answers.yes

\* C11: for every inserted prefix set, the trie loaded from the
\* well-formed blob of its trie answers every address as the naive matcher
\* over the set does (some inserted prefix of the family covers it).
C11_RoundTrip ==
    (loaded.done /\ loaded.how = "none") =>
        /\ loaded.err = "nil"
        /\ \A a \in Addrs : (a \in loaded.yes) <=> (\E p \in inserted : Covers(p, a))

\* a blob of two prefixes of different lengths was loaded, it answers yes
\* for some addresses and no for others
C11_Witness ==
    /\ loaded.done
    /\ loaded.how = "none"
    /\ \E p, q \in inserted : p.bits < q.bits /\ q.bits = Width(q.is4)
    /\ loaded.yes # {}
    /\ loaded.yes # Addrs

\* this step ends an updateNow call in failure
UpdateFails ==
    \E c \in UpdateCalls : calls[c].pc = "fetch" /\ calls'[c].pc = "failed"

\* this step is a fetch attempt that fails
AttemptFails ==
    \E c \in UpdateCalls : calls[c].pc = "fetch" /\ calls'[c].attempt > calls[c].attempt

\* C12: a failed fetch attempt leaves the matcher's {trie, count} as it
\* was; an update that fails (all attempts failed, by transport error,
\* status or a payload the loader rejects) records last_error and leaves
\* update_count and last_update unchanged.
C12_FailedUpdateFrame ==
    [][/\ AttemptFails => matcher' = matcher
       /\ UpdateFails =>
             /\ matcher' = matcher
             /\ ed'.lastError # "nil"
             /\ ed'.updateCount = ed.updateCount
             /\ ed'.lastUpdate = ed.lastUpdate]_vars

\* an update failed after an earlier one had published a list, at a later
\* instant than that list's update
C12_Witness ==
    /\ \E c \in UpdateCalls : calls[c].pc = "failed" /\ calls[c].lastErr = "invalid magic"
    /\ ed.lastError = "invalid magic"
    /\ ed.updateCount = 1
    /\ ed.lastUpdate < ed.now - 1
    /\ matcher.src = "u1"
    /\ matcher.trie.rootV4 # EmptyRoot

\* the peer of the request is not a trusted proxy: its address text does
\* not parse, or lies in none of the configured prefixes
PeerUntrusted ==
    LET parsed == ParseAddr(getDirectIP(dx.req.RemoteAddr))
    IN  \/ ~parsed.ok
        \/ \A i \in 1..Len(dx.cfg.trustedProxies) :
              ~Covers(dx.cfg.trustedProxies[i], [is4 |-> parsed.is4, val |-> parsed.val])

\* C13: when the strategy is direct, or no trusted prefixes are
\* configured, or the peer lies in no trusted prefix, the extracted client
\* IP is the direct IP, whatever X-Forwarded-For, X-Real-IP and the custom
\* header hold.
C13_HeadersOnlyFromTrusted ==
    (dx.pc = "done"
        /\ (dx.cfg.IPStrategy = "direct" \/ dx.cfg.trustedProxies = <<>> \/ PeerUntrusted))
        => dx.clientIP = getDirectIP(dx.req.RemoteAddr)

\* an untrusted peer sent a forwarded address under strategy xff, with
\* trusted prefixes configured, and the peer's own address was extracted
C13_Witness ==
    /\ dx.pc = "done"
    /\ dx.cfg.IPStrategy = "xff"
    /\ dx.cfg.trustedProxies # <<>>
    /\ PeerUntrusted
    /\ ParseAddr(dx.req.xff).ok
    /\ dx.req.xff # dx.clientIP
    /\ ParseAddr(dx.clientIP).ok

\* the answer of the IP check ServeHTTP used for the served request
RequestCheck ==
    IF lastReq.debug THEN IsIPAllowedWithStats(lastReq.clientIP)
    ELSE IsIPAllowed(lastReq.clientIP)

\* the served request is to be passed on: no manager, deployment not
\* enabled, or the IP allowed
PassThrough ==
    \/ init.instance = "nil"
    \/ ~IsDeploymentEnabled
    \/ (lastReq.clientIP # <<>> /\ RequestCheck.err = "nil" /\ RequestCheck.allowed)

InFlight ==
    IF wk.pc \in {"ship", "ratesleep", "allow", "send", "backoff"}
    THEN EventsOf(wk.events) ELSE {}

\* the events still held: in the channel, the current batch, a running
\* shipBatch, the ring buffer, or drained by flushBuffer and not yet shipped
Held ==
    EventsOf(sh.ch) \cup EventsOf(wk.batch) \cup InFlight
        \cup EventsOf(sh.ring) \cup EventsOf(wk.rest)

\* the number of real events in a sequence of events
Real(events) == Cardinality({i \in 1..Len(events) : events[i] # 0})

HeldCount ==
    Real(sh.ch) + Real(wk.batch) + Real(sh.ring) + Real(wk.rest)
        + (IF InFlight # {} THEN Real(wk.events) ELSE 0)

\* C15: overflow drops are counted: the events SendEvent accepted are the
\* events shipped, plus the events counted dropped, plus the events still
\* held in the channel, the current batch or the ring buffer.
C15_DropsCounted ==
    obs.accepted = sh.shipped + sh.dropped + HeldCount

\* the bucket denies one token now
Denied == refill(Bucket(sh)).tokens < 1

\* C16: when the bucket denies the batch after the wait, shipBatch returns
\* without a POST, with every event of the batch back in the ring buffer;
\* nothing is counted shipped or returned to the pool, and the ring buffer
\* loses an event only by overflowing.
C16_DeniedRebuffers ==
    /\ [](wk.result = "limited" => wk.pc = "return" /\ wk.posts = 0)
    /\ [][(wk.pc = "allow" /\ wk'.pc # "allow" /\ Denied) =>
            /\ wk'.pc = "return"
            /\ wk'.posts = 0
            /\ wk'.pooled = 0
            /\ sh'.shipped = sh.shipped
            /\ EventsOf(wk.events) \subseteq EventsOf(sh'.ring)
            /\ (~(EventsOf(sh.ring) \subseteq EventsOf(sh'.ring))
                    => Len(sh.ring) + Len(wk.events) > BufferSize)]_vars

\* a batch was denied after a rate-limit sleep and is back in the ring buffer
C16_Witness ==
    /\ wk.pc = "return"
    /\ wk.result = "limited"
    /\ wk.d > 0
    /\ EventsOf(wk.events) # {}
    /\ EventsOf(wk.events) \subseteq EventsOf(sh.ring)

\* C17: one shipBatch makes at most maxRetries POSTs and none after a 2xx.
\* When the last attempt fails every event of the batch is in the ring
\* buffer and none is returned to the pool or counted shipped; when an
\* attempt succeeds the ring buffer is left alone and no event of the batch
\* is held anywhere any more.
C17_RetryThenRebuffer ==
    /\ [](wk.posts <= maxRetries /\ wk.attempt < maxRetries)
    /\ [](wk.result = "ok" => wk.pc = "return")
    /\ [][(wk.pc = "send" /\ wk'.pc = "return" /\ wk'.result = "failed") =>
            /\ EventsOf(wk.events) \subseteq EventsOf(sh'.ring)
            /\ wk'.pooled = 0
            /\ sh'.shipped = sh.shipped
            /\ wk.attempt = maxRetries - 1]_vars
    /\ [][(wk.pc = "send" /\ wk'.result = "ok") =>
            /\ wk'.posts = wk.posts + 1
            /\ sh'.ring = sh.ring
            /\ sh'.shipped = sh.shipped + Len(wk.events)
            /\ wk'.pooled = Len(wk.events)
            /\ EventsOf(wk.events) \cap Held' = {}]_vars

\* a batch failed on its third POST and is back in the ring buffer
C17_Witness ==
    /\ wk.pc = "return"
    /\ wk.result = "failed"
    /\ wk.posts = maxRetries
    /\ Len(wk.events) = BatchSize
    /\ EventsOf(wk.events) \subseteq EventsOf(sh.ring)

\* C18: when Stop has returned nil the channel has been drained and every
\* accepted event that was not shipped has been handed to shipBatch.
C18_GracefulStop ==
    wk.stop = "nil" =>
        /\ sh.ch = <<>>
        /\ Held \subseteq obs.attempted

C20_RefreshBeforeExpiry ==
    (rf.last.made /\ rf.last.first) => rf.last.untilExpiry > 0

\* C21: the recovery from a panic writes the 500 response only to a
\* response that was not committed: a response whose status was sent
\* before the panic is left exactly as it was.
C21_RecoveryWritesOnlyIfUncommitted ==
    [][(rw.pc = "panicking" /\ rw'.pc = "recovered") =>
            IF rw.resp.status = 0
            THEN rw'.resp.status = 500
            ELSE rw'.resp = rw.resp]_vars

\* the header the configured strategy reads; empty when it reads none
RelevantHeader ==
    CASE dx.cfg.IPStrategy = "xff" -> dx.req.xff
      [] dx.cfg.IPStrategy = "real-ip" -> dx.req.realip
      [] dx.cfg.IPStrategy = "custom" /\ dx.cfg.TrustedHeader # "" -> dx.req.custom
      [] OTHER -> <<>>

\* C22: for a request from a trusted peer the extracted IP is the trimmed
\* first entry of X-Forwarded-For (xff), the X-Real-IP value (real-ip) or
\* the configured header's value (custom); it is the direct IP when that
\* header is absent or no header name is configured; and it is not empty
\* when the direct IP is not empty.
C22_TrustedPeerHeaders ==
    (dx.pc = "done" /\ dx.cfg.IPStrategy # "direct"
        /\ dx.cfg.trustedProxies # <<>> /\ ~PeerUntrusted)
        => /\ dx.clientIP =
                 (IF RelevantHeader = <<>> THEN getDirectIP(dx.req.RemoteAddr)
                  ELSE IF dx.cfg.IPStrategy = "xff"
                  THEN TrimSpace(FirstField(RelevantHeader))
                  ELSE TrimSpace(RelevantHeader))
           /\ getDirectIP(dx.req.RemoteAddr) # <<>> => dx.clientIP # <<>>

\* C23: while CheckConfigUpdates is running, the most recent bootstrap
\* response was a success (the refresh that called it), and the access
\* token and config URL its GET carries are those of that response; a
\* step starts CheckConfigUpdates only by storing a successful response.
C23_RecheckAfterRefresh ==
    /\ [](rt.rpc = "check" =>
            /\ seen.lastOK
            /\ tm.currentToken = seen.lastToken /\ tm.currentToken # ""
            /\ tm.configURL = seen.lastURL /\ tm.configURL # "")
    /\ [][(rt.rpc = "wait" /\ rt'.rpc = "check") =>
            /\ seen'.lastOK
            /\ tm'.currentToken = seen'.lastToken
            /\ tm'.configURL = seen'.lastURL]_vars

\* a refresh stored the second token and URL and CheckConfigUpdates runs
C23_Witness ==
    /\ rt.rpc = "check"
    /\ tm.currentToken = "access2"
    /\ tm.configURL = "cfg2"

\* C24: when the refresh timer fires and a refresh is attempted, a
\* successful refresh sets the next delay to the larger of 30 s and 0.8 of
\* the time left until the new expiry (to the whole second), a failed one
\* sets it to exactly 30 s and leaves the stored token, expiry, config URL
\* and logs URL as they were; no step sets the timer to less than 30 s,
\* whatever the lifetime.
C24_RefreshDelay ==
    /\ [][(rf.pc = "loop" /\ rf.untilTimer = 0 /\ rf'.last.made) =>
            IF rf'.fresh
            THEN /\ rf'.untilTimer >= 30
                 /\ \/ rf'.untilTimer = 30 /\ 4 * rf'.untilExpiry < 5 * 31
                    \/ /\ 5 * rf'.untilTimer <= 4 * rf'.untilExpiry
                       /\ 4 * rf'.untilExpiry < 5 * rf'.untilTimer + 5
            ELSE /\ rf'.untilTimer = 30
                 /\ rf'.stored = rf.stored
                 /\ rf'.untilExpiry = rf.untilExpiry]_vars
    /\ [][rf'.untilTimer > rf.untilTimer => rf'.untilTimer >= 30]_vars

C24_Witness ==
    /\ rf.last.made /\ ~rf.fresh /\ rf.untilTimer = 30
    /\ rf.untilExpiry <= 0 /\ rf.stored.currentToken = "access2"

\* C25: once any control-plane response was 410 (to a bootstrap, a refresh
\* or a config fetch), the refresh loop issues no further bootstrap
\* request: it has returned, or it returns at its next timer because
\* tm.deploymentDeleted is set.
C25_RefreshStopsWhenDeleted ==
    seen.got410 => ~(rt.refreshLoop /\ ~tm.deploymentDeleted)

\* C26: an updateNow call makes at most three fetch attempts and none
\* after its first success; the waits it completed are 2 s before the
\* second and 4 s before the third attempt; after three failed attempts it
\* returns the error of the third; and when its context is cancelled while
\* it waits between attempts, its next step is to return the context's
\* error without another fetch.
C26_FetchWithRetry ==
    /\ [](\A c \in UpdateCalls :
            /\ calls[c].fetches <= 3
            /\ calls[c].pc = "ok" => calls[c].ret = "nil"
            /\ calls[c].pc = "fetch" =>
                  calls[c].waits = SubSeq(<<2, 4>>, 1, calls[c].fetches)
            /\ calls[c].pc = "ok" =>
                  calls[c].waits = SubSeq(<<2, 4>>, 1, calls[c].fetches - 1)
            /\ (calls[c].pc = "failed" /\ calls[c].ret # "context canceled") =>
                  (calls[c].fetches = 3 /\ calls[c].ret = calls[c].lastErr
                     /\ calls[c].ret # "nil" /\ calls[c].waits = <<2, 4>>))
    /\ [][\A c \in UpdateCalls :
            /\ calls'[c].fetches = calls[c].fetches + 1 =>
                  (calls[c].pc = "fetch" /\ calls[c].ret = "none")
            /\ (calls[c].pc = "wait" /\ calls[c].cancelled /\ calls'[c] # calls[c]) =>
                  /\ calls'[c].pc = "failed"
                  /\ calls'[c].ret = "context canceled"
                  /\ calls'[c].fetches = calls[c].fetches]_vars

C26_Witness ==
    \E c, d \in UpdateCalls :
        /\ calls[c].pc = "failed" /\ calls[c].fetches = 3 /\ calls[c].waits = <<2, 4>>
        /\ calls[d].pc = "failed" /\ calls[d].ret = "context canceled"
        /\ calls[d].fetches = 2

\* the loop waits in its select with no signal in reconfigureCh and no
\* Reconfigure between its stores and its signal
LoopIdle == lp.pc = "select" /\ lp.reconfigureCh = 0 /\ ~lp.locked

\* C27: a running update loop that is idle with no signal pending ticks
\* at the stored frequency, and after any sequence of Reconfigure calls a
\* started loop is again and again idle at the stored frequency, or has
\* been stopped.
C27_ReconfigureReachesLoop ==
    /\ [](LoopIdle => lp.ticker = lp.updateFrequency)
    /\ [](lp.pc # "new" =>
            <>(lp.pc = "stopped" \/ (LoopIdle /\ lp.ticker = lp.updateFrequency)))

\* three calls, the second coalesced with the first, and the loop ticks
\* at the frequency of the third
C27_Witness ==
    /\ LoopIdle /\ lp.calls = 3 /\ lp.spawned = 3
    /\ lp.ticker = 300 /\ lp.updateFrequency = 300

\* the config request of the call fails with an error other than 403/410
OtherFetchError ==
    cc.configURL = "" \/ cc.resp.status \in {"500", "neterr"}

\* the call is answered a config that has no combined URL, or whose
\* first URL, frequency and mode are the stored ones
NothingChanged ==
    /\ cc.configURL # "" /\ cc.resp.status = "200"
    /\ LET c == cc.resp.config
       IN  \/ c.combined = <<>>
           \/ /\ c.combined[1] = cc.m.edlURL
              /\ cc.m.edlUpdateFreq = IF c.update_frequency_seconds <= 0 THEN 300
                                       ELSE c.update_frequency_seconds
              /\ cc.m.edlMode = IF c.purpose = "allowlist" THEN "allowlist"
                                 ELSE "blocklist"

CheckDisabled == ~cc.m.deploymentEnabled \/ cc.m.temporarilyDisabled

SupervisorReturns == rt.supervisors > 0 /\ rt'.supervisors = rt.supervisors - 1

\* C29: a supervisor retry whose bootstrap succeeds restores the manager
\* to enabled, and the supervisor then returns with the EDL setup done:
\* mode, URL and frequency stored, an updater whose initial fetch was made
\* and an update loop running; a retry answered 410 leaves the deployment
\* deleted and the supervisor returns; while the supervisor stays, the
\* manager's flags and EDL fields are as they were.
C29_SupervisorOutcomes ==
    [][/\ (rt.spc = "wait" /\ rt'.spc = "config") =>
             (m'.deploymentEnabled /\ ~m'.temporarilyDisabled)
       /\ (SupervisorReturns /\ m'.deploymentEnabled) =>
             /\ m'.edlMode # "" /\ m'.edlURL # "" /\ m'.edlUpdateFreq > 0
             /\ m'.edlUpdater /\ u'.url = m'.edlURL
             /\ rt'.updateLoops > 0
       /\ (SupervisorReturns /\ ~m'.deploymentEnabled) =>
             (tm'.deploymentDeleted /\ ~m'.temporarilyDisabled)
       /\ (rt.supervisors > 0 /\ rt.spc = "wait" /\ rt' = rt) => m' = m]_vars

\* the first nine bytes of the loaded stream are not ELLIOTRIE
MagicWrong == loaded.how \in {"magic", "both", "magicCut"}

\* the stream starts with ELLIOTRIE and a version other than 2
VersionWrong == loaded.how \in {"version", "versionCut"}

\* C30: a stream whose first nine bytes are not ELLIOTRIE is rejected
\* with ErrInvalidMagic, also when its version is wrong; a stream with the
\* magic and a version other than 2 is rejected with
\* ErrUnsupportedVersion; in both cases no trie is returned.
C30_HeaderValidation ==
    loaded.done =>
        /\ MagicWrong => loaded.err = "invalid magic"
        /\ VersionWrong => loaded.err = "unsupported version"
        /\ (MagicWrong \/ VersionWrong) => (loaded.yes = {} /\ loaded.count = 0)

\* this step takes an event from the ingress channel
Received == sh.ch # <<>> /\ sh'.ch = Tail(sh.ch)

\* this step is processBufferedEvents: after a flush tick that found no
\* batch, or after the shipment of the batch the flush tick found
DrainsBuffered ==
    \/ WorkerFlushTick /\ wk.batch = <<>>
    \/ ShipReturn /\ wk.cont = "buffered"

\* the events that are neither handed to shipBatch yet nor held any more
Unattempted == (1..obs.accepted) \ obs.attempted

Refilled == refill(Bucket(sh))

\* C32: the bucket always holds between 0 and capacity tokens; Allow(1) in
\* shipBatch succeeds exactly when the refilled bucket holds a token, then
\* takes exactly one and shipBatch goes on to send, and otherwise leaves
\* the refilled count alone and shipBatch re-buffers; no other step takes
\* a token, so a shipBatch call costs one token or none.
C32_TokenBucket ==
    /\ [](sh.tokens >= 0 /\ sh.tokens <= BucketCapacity)
    /\ [][ShipAllow =>
            IF Refilled.tokens >= 1
            THEN wk'.pc = "send" /\ sh'.tokens = Refilled.tokens - 1
                   /\ sh'.ring = sh.ring
            ELSE wk'.pc = "return" /\ wk'.result = "limited"
                   /\ sh'.tokens = Refilled.tokens
                   /\ EventsOf(wk.events) \subseteq EventsOf(sh'.ring)]_vars
    /\ [][sh'.tokens < sh.tokens => (ShipAllow /\ wk'.pc = "send")]_vars

\* Allow(1) found the bucket empty after its refill and the batch went back
\* to the ring buffer without a token being taken
C32_Witness ==
    /\ wk.pc = "return" /\ wk.result = "limited" /\ sh.tokens = 0
    /\ EventsOf(wk.events) \subseteq EventsOf(sh.ring) /\ wk.events # <<>>

\* this step is an s.send that returns "logs URL not available" or "access
\* token not available" before it builds a request
SendUnavailable == ShipSend("unavailable")

\* C33: with an empty logs URL or access token, shipping a batch fails at
\* once: the send issues no HTTP request, and sendWithRetry returns after
\* that single attempt, without a back-off sleep, so that the events are
\* re-buffered.
C33_ImmediateFailure ==
    [][SendUnavailable =>
          /\ wk'.posts = wk.posts
          /\ wk'.pc = "return" /\ wk'.result = "failed"
          /\ wk.attempt = 0]_vars

\* what sendWithRetry does with such a send: it counts as one failed
\* attempt of maxRetries, each but the first after a back-off sleep
C33_RetriedLikeAnyError ==
    [][SendUnavailable =>
          /\ wk'.posts = wk.posts
          /\ IF wk.attempt + 1 < maxRetries
             THEN wk'.pc = "backoff" /\ wk'.attempt = wk.attempt + 1
             ELSE wk'.pc = "return" /\ wk'.result = "failed"]_vars

\* the events the buffer holds, oldest first: size cells from head on
Contents == [i \in 1..rb.size |-> rb.buffer[((rb.head + i - 1) % rb.capacity) + 1]]

\* the k most recently added events, in arrival order
Recent(k) == [i \in 1..k |-> rb.added - k + i]

\* this step is a Drain(n) / a DrainAll
DrainStep == \E n \in 0..(MaxCapacity + 1) : RbDrain(n)

\* C34: for a buffer of capacity c >= 1, after any sequence of Add,
\* Drain(n) and DrainAll: 0 <= size <= c and tail = (head + size) mod c;
\* the buffer holds exactly the most recent min(c, k) events, where k is
\* the number of events added after the newest event a drain has returned;
\* Drain(n) returns the min(n, size) oldest events in arrival order and
\* keeps the others, DrainAll returns all of them in arrival order and
\* leaves size 0.
C34_RingBuffer ==
    /\ [](rb.capacity > 0 =>
            /\ rb.size >= 0 /\ rb.size <= rb.capacity
            /\ rb.tail = (rb.head + rb.size) % rb.capacity
            /\ Contents = Recent(Min(rb.capacity, rb.added - rb.lastReturned)))
    /\ [][DrainStep =>
            /\ rb'.ret = SubSeq(Contents, 1, Min(rb'.n, rb.size))
            /\ Contents' = SubSeq(Contents, Min(rb'.n, rb.size) + 1, rb.size)]_vars
    /\ [][RbDrainAll => (rb'.ret = Contents /\ rb'.size = 0)]_vars

\* a buffer of capacity 3 that overflowed, then gave its oldest event to a
\* Drain(1) and holds the two events added last
C34_Witness ==
    /\ rb.capacity = 3 /\ rb.op = "Drain" /\ rb.n = 1 /\ rb.added = 5
    /\ rb.ret = <<3>> /\ Contents = <<4, 5>>

\* C34 as stated: the buffer holds min(c, number added since it was last
\* empty minus number drained since then) events
C34_CountAsStated ==
    rb.capacity > 0 => rb.size = Min(rb.capacity, rb.sinceEmptied - rb.drained)

\* C35: whenever IsDeploymentEnabled() is true the manager's mode is
\* allowlist or blocklist, never unset; also after the retry supervisor has
\* marked the deployment enabled and before, or without, a config fetch
\* that succeeds.  (Stated for the states after Initialize has returned
\* without an error.)
C35_EnabledHasMode ==
    (init.once = "done" /\ init.initErr = "nil" /\ IsDeploymentEnabled)
        => m.edlMode \in {"allowlist", "blocklist"}

\* C36: mode and list are switched together: every request that is decided
\* against the list uses a mode and a trie of the same configuration, i.e.
\* the manager has at some time stored that mode together with the URL the
\* trie was loaded from; never the mode of a new configuration with the
\* trie of the old URL, or the reverse.
C36_ModeAndTrieAgree ==
    (sw.req.handled /\ sw.req.enabled) => <<sw.req.src, sw.req.mode>> \in sw.configs

\* C37: after a Reconfigure, once every update that was in flight has
\* ended and every fetch since the Reconfigure succeeded, the matcher
\* holds the trie fetched from the updater's new URL.
C37_NoStaleOverwrite ==
    (sw.reconfigured /\ sw.allOK /\ NothingInFlight) => sw.src = sw.url

\* the nil event that a receive from the closed channel yields
NilEvent == 0

\* C38: stopping the shipper is safe under every interleaving: a SendEvent
\* that runs with or after Stop never sends on the closed ingress channel,
\* so the request path does not fault, and the worker never puts the nil
\* event it receives from the closed channel into a batch.
C38_StopIsSafe ==
    /\ ~sh.panicked
    /\ \A i \in 1..Len(wk.batch) : wk.batch[i] # NilEvent
    /\ \A i \in 1..Len(wk.events) : wk.events[i] # NilEvent

\* the first half of C38 alone: no send on the closed channel
C38_NoSendOnClosed == ~sh.panicked

\* the second half of C38 alone: no nil event in a batch
C38_NoNilInBatch ==
    /\ \A i \in 1..Len(wk.batch) : wk.batch[i] # NilEvent
    /\ \A i \in 1..Len(wk.events) : wk.events[i] # NilEvent

\* the stream holds a root or child index that is not below total_nodes
\* and is not the "none" value
BadIndex ==
    \/ loaded.how = "badRoot"
    \/ loaded.how = "badChild" /\ inserted # {}

\* C39: the loader never faults: for every stream it returns an error or a
\* trie whose root and child references point into the loaded node array;
\* a root or child index that is not below total_nodes and is not the
\* "none" value is rejected with an error.
C39_LoaderNeverFaults ==
    loaded.done =>
        /\ loaded.err # "panic"
        /\ BadIndex => loaded.err # "nil"

\* the deployment is enabled and decides requests with a mode and a list
\* that were fetched
Enforcing == IsDeploymentEnabled /\ m.edlMode # "" /\ matcher.src # "new"

\* C40: whenever the deployment is enabled and enforcing an EDL, a token
\* refresh loop is running; also after the retry supervisor has re-enabled
\* a deployment that was temporarily disabled at initialization.  (Stated
\* for the states after Initialize has returned without an error and while
\* no control-plane answer was 410.)
C40_RefreshLoopRuns ==
    (init.once = "done" /\ init.initErr = "nil" /\ ~seen.got410 /\ Enforcing)
        => rt.refreshLoop

============================================================================
